---- MODULE Spec2Model ----
(***************************************************************************)
(* Model of the profsandman_agents core of sguiter/demo:                   *)
(*   - OpenAILLM           (llms.py)   the language-model gateway          *)
(*   - SQLiteAgent.query   (agents.py) generate / execute / repair / sum.  *)
(*   - ChromaAgent.query   (agents.py) retrieve / confidence gate / answer *)
(*   - MultiAgent.query    (agents.py) classify and forward                *)
(*   - ChromaDBVectorDB    (vector_databases.py) initialize / add / retrieve*)
(*   - SemanticChunker     (chunkers.py) first pass and refinement pass    *)
(*   - two ChromaAgent.query calls running in two threads on one instance  *)
(*   - two SQLiteAgent.query calls running in two threads on one instance  *)
(*   - MultiAgent.__init__  (agents.py) the classification prompt          *)
(*   - ExcelAgent._build_schema (agents.py) one table per sheet            *)
(*   - query_race_agent    (agent_helpers.py) the chatbot's entry point    *)
(* Every external call (hosted model, SQLite execution, vector index) is a *)
(* step whose outcome is chosen by the environment.                        *)
(***************************************************************************)
EXTENDS Integers, Sequences, FiniteSets, TLC

VARIABLES
    \* ---- OpenAILLM ----
    llm_model,          \* self.model_args_['model']
    llm_calls,          \* query/structured_query invocations so far
    llm_sent,           \* requests that reached the hosted model so far
    llm_last,           \* the latest invocation: method, tokens, outcome, sent
    \* ---- SQLiteAgent ----
    sql_pc,             \* position inside SQLiteAgent.query
    sql_prompt,         \* argument prompt
    sql_retries,        \* argument retries
    attempts,           \* local attempts
    error_context,      \* local error_context
    sql_response_,      \* self.response_ (the SQLResponse last generated)
    sql_answer,         \* local answer (rows of the executed query)
    sql_result,         \* what the call returned or raised
    summary,            \* local summary (text of the summarize completion)
    sql_genLog,         \* structured_query requests issued by this call
    sql_trace,          \* this call's external calls, in order: "gen", an
                        \* execution's outcome ("raised", "empty", "rows"), "sum"
    schema_json_,       \* self.schema_json_
    sql_source,         \* shape of the database behind engine_: when the
                        \* agent was constructed, and now
    sql_attemptLog,     \* per request of this call: the snapshot its prompt
                        \* embedded, the query it produced, the error caught
    \* ---- ChromaDBVectorDB ----
    vdb_attached,       \* self.collection_ is not None
    vdb_rows,           \* documents of the active collection, in insertion order
    text_extractor_,    \* self.text_extractor_: "set" or "None"
    chunker_,           \* self.chunker_: "set" or "None"
    distance_measure_,  \* self.distance_measure_: "cosine" or "None"
    retrieval_only_,    \* self.retrieval_only_
    client_,            \* self.client_ is not None
    collection_,        \* name of the collection self.collection_ refers to
    vdb_db,             \* the database at dbpath_: collection name -> rows
    vdb_db0,            \* the database as it was at construction
    vdb_uuids,          \* identifiers issued so far (uuid4 never repeats one)
    vdb_ops,            \* operations called on the store so far
    vdb_last,           \* the latest operation: what it was given and did
    vdb_dbInitOk,       \* some initialize_db call has returned
    add_pc,             \* position inside add_to_collection
    add_documents,      \* local documents
    add_i,              \* local i (0-based index into documents)
    add_chunks,         \* local chunks
    add_idx,            \* local idx (0-based index into chunks)
    add_rows0,          \* rows of the active collection when add was called
    add_produced,       \* chunk lists the chunker returned to this call
    add_calls,          \* extract / chunk / embed / add calls of this call
    \* ---- ChromaAgent ----
    rag_pc,             \* position inside ChromaAgent.query
    rag_question,       \* argument prompt
    rag_k,              \* argument k
    rag_max_distance,   \* argument max_distance, in hundredths
    rag_show_citations, \* argument show_citations
    docs_,              \* self.docs_
    distances_,         \* self.distances_, in hundredths
    rag_prompt_,        \* self.prompt_
    rag_response_,      \* self.response_
    rag_result,         \* what the call returned or raised
    rag_retrieved,      \* what vectordb_.retrieve returned to this call
    rag_llmCalls,       \* llm_.query requests issued by this call
    \* ---- MultiAgent ----
    agents_,            \* self.agents_: the backends, in configuration order
    ma_pc,              \* position inside MultiAgent.query
    ma_question,        \* argument prompt
    ma_response,        \* local response (the ConductorResponse), if any
    last_agent_,        \* self.last_agent_
    last_agent_name_,   \* self.last_agent_name_
    ma_result,          \* what the call returned or raised
    ma_classifyCalls,   \* structured_query requests issued by this call
    ma_forwardLog,      \* backend query calls made by this call
    \* ---- SemanticChunker ----
    ch_pc,              \* position inside SemanticChunker.chunk
    ch_text,            \* argument text: the token count of each document
    ch_t,               \* documents finished so far
    super_blocks,       \* local super_blocks: token count of each block
    ch_block,           \* blocks of the current document sent so far
    pre_chunks,         \* local pre_chunks: token count of each chunk
    ch_chunk,           \* pre_chunks of the current document handled so far
    final_chunks,       \* local final_chunks: token count of each chunk
    ch_docs,            \* local docs
    ch_result,          \* what the call returned or raised
    ch_calls,           \* structured_query requests of this call, counted
    \* ---- two threads inside ChromaAgent.query ----
    th_pc,              \* position of each thread inside query
    th_args,            \* arguments of each thread's call
    th_retrieved,       \* what vectordb_.retrieve returned to each thread
    th_mindist,         \* local mindist of each thread
    th_context,         \* local context_str of each thread
    th_result,          \* what each thread's call returned or raised
    \* ---- query_race_agent ----
    qra_pc,             \* position inside query_race_agent
    qra_out,            \* what the call returned or raised
    \* ---- construction of the agents and of MultiAgent ----
    mi_pc,              \* position inside the construction
    mi_agents,          \* argument agents: how each was constructed and the
                        \* class it has afterwards
    mi_descs,           \* argument agent_descriptions
    agent_types_,       \* self.agent_types_
    ma_prompt_,         \* self.prompt_: one line per agent described so far
    \* ---- ExcelAgent._build_schema ----
    xl_pc,              \* position inside _build_schema
    xl_sheets,          \* the sheets of the workbook, in order
    xl_i,               \* sheets uploaded so far
    xl_tables,          \* the temporary database: table name -> data
    \* ---- two threads inside SQLiteAgent.query ----
    sq_th               \* per thread: position, arguments and locals

llmVars == <<llm_model, llm_calls, llm_sent, llm_last>>
sqlVars == <<sql_pc, sql_prompt, sql_retries, attempts, error_context,
             sql_response_, sql_answer, sql_result, summary, sql_genLog,
             sql_trace, schema_json_, sql_source, sql_attemptLog>>
vdbVars == <<vdb_attached, vdb_rows, text_extractor_, chunker_,
             distance_measure_, retrieval_only_, client_, collection_, vdb_db,
             vdb_db0, vdb_uuids, vdb_ops, vdb_last, vdb_dbInitOk, add_pc,
             add_documents, add_i, add_chunks, add_idx, add_rows0,
             add_produced, add_calls>>
ragVars == <<rag_pc, rag_question, rag_k, rag_max_distance, rag_show_citations,
             docs_, distances_, rag_prompt_, rag_response_, rag_result,
             rag_retrieved, rag_llmCalls>>
maVars == <<agents_, ma_pc, ma_question, ma_response, last_agent_,
            last_agent_name_, ma_result, ma_classifyCalls, ma_forwardLog>>
chunkVars == <<ch_pc, ch_text, ch_t, super_blocks, ch_block, pre_chunks,
               ch_chunk, final_chunks, ch_docs, ch_result, ch_calls>>
raceVars == <<th_pc, th_args, th_retrieved, th_mindist, th_context, th_result>>
qraVars == <<qra_pc, qra_out>>
initVars == <<mi_pc, mi_agents, mi_descs, agent_types_, ma_prompt_>>
xlVars == <<xl_pc, xl_sheets, xl_i, xl_tables>>
sqVars == <<sq_th>>
vars == <<llmVars, sqlVars, vdbVars, ragVars, maVars, chunkVars, raceVars,
          qraVars, initVars, xlVars, sqVars>>

\* what a step of one component leaves alone
LlmFrame == UNCHANGED <<sqlVars, vdbVars, ragVars, maVars, chunkVars, raceVars,
                        qraVars, initVars, xlVars, sqVars>>
SqlFrame == UNCHANGED <<vdbVars, ragVars, maVars, chunkVars, raceVars,
                        qraVars, initVars, xlVars, sqVars>>
RagFrame == UNCHANGED <<sqlVars, vdbVars, maVars, chunkVars, raceVars,
                        qraVars, initVars, xlVars, sqVars>>
QraFrame == UNCHANGED <<vdbVars, chunkVars, raceVars, initVars, xlVars, sqVars>>
MaFrame == QraFrame /\ UNCHANGED qraVars
VdbFrame == UNCHANGED <<llmVars, sqlVars, ragVars, maVars, chunkVars, raceVars,
                        qraVars, initVars, xlVars, sqVars>>
ChunkFrame == UNCHANGED <<sqlVars, vdbVars, ragVars, maVars, raceVars,
                          qraVars, initVars, xlVars, sqVars>>
RaceFrame == UNCHANGED <<llmVars, sqlVars, vdbVars, maVars, chunkVars,
                         qraVars, initVars, xlVars, sqVars>>
InitFrame == UNCHANGED <<llmVars, sqlVars, vdbVars, ragVars, maVars, chunkVars,
                         raceVars, qraVars, xlVars, sqVars>>
XlFrame == UNCHANGED <<llmVars, sqlVars, vdbVars, ragVars, maVars, chunkVars,
                       raceVars, qraVars, initVars, sqVars>>
SqFrame == UNCHANGED <<vdbVars, ragVars, maVars, chunkVars, raceVars,
                       qraVars, initVars, xlVars>>

----------------------------------------------------------------------------
(* Bounds of the model *)

\* largest value of the retries argument that is explored
MaxRetries == 2
\* gateway invocations explored when the gateway is called directly
MaxRequests == 3
\* largest value of the k argument that is explored
MaxK == 2
\* largest number of rows of a collection that is explored
MaxRows == 2

----------------------------------------------------------------------------
(* OpenAILLM: llms.py *)

\* llms.py:24
SAFETY_LIM == 1000

SupportedModels == {"gpt-4", "gpt-4-turbo", "gpt-4o", "gpt-4o-mini", "o3-mini"}

\* llms.py:15-21
OPENAI_TOKEN_LIMITS(model) ==
    CASE model = "gpt-4"       -> 32768
      [] model = "gpt-4-turbo" -> 131072
      [] model = "gpt-4o"      -> 128000
      [] model = "gpt-4o-mini" -> 128000
      [] model = "o3-mini"     -> 200000

\* Token counts the token counter may report for a prompt: small, just under,
\* at and just over the budget of the model, and the whole context window.
TokenInputs(model) ==
    LET lim == OPENAI_TOKEN_LIMITS(model) IN
    {0, lim - SAFETY_LIM - 1, lim - SAFETY_LIM, lim - SAFETY_LIM + 1, lim}

\* What the hosted service does with a request that reaches it.
NetOutcomes == {"ok", "api_error"}

\* a mutant of _check_token_limit: the safety margin is forgotten
CheckTokenLimit_NoMargin(model, token_count) ==
    ~(token_count > OPENAI_TOKEN_LIMITS(model))

\* a mutant of _check_token_limit: off by one at the boundary
CheckTokenLimit_OffByOne(model, token_count) ==
    ~(token_count + SAFETY_LIM >= OPENAI_TOKEN_LIMITS(model))

\* OpenAILLM._check_token_limit: TRUE when it returns True, FALSE when it
\* raises ValueError("Text is too long for the model...")
CheckTokenLimit(model, token_count) ==
    ~(token_count + SAFETY_LIM > OPENAI_TOKEN_LIMITS(model))

\* OpenAILLM.query / structured_query: the check comes first; the request is
\* sent only when the check passed; the service then answers or fails.
GatewayOutcome(model, token_count, net) ==
    IF ~CheckTokenLimit(model, token_count) THEN "over_budget"
    ELSE IF net = "ok" THEN "ok" ELSE "api_error"

\* whether the invocation got as far as client_.chat.completions.create/parse
GatewaySent(model, token_count) == CheckTokenLimit(model, token_count)

\* str(e) of the exception an invocation raises
GatewayError(outcome) ==
    IF outcome = "over_budget" THEN "ValueError: Text is too long for the model"
    ELSE "APIError"

NoCall == [method |-> "none", tokens |-> 0, outcome |-> "none", sent |-> FALSE]

\* the effect of one invocation of the gateway on its own state
LlmInvoke(method, token_count, net) ==
    /\ llm_calls' = llm_calls + 1
    /\ llm_sent' = IF GatewaySent(llm_model, token_count)
                   THEN llm_sent + 1 ELSE llm_sent
    /\ llm_last' = [method  |-> method,
                    tokens  |-> token_count,
                    outcome |-> GatewayOutcome(llm_model, token_count, net),
                    sent    |-> GatewaySent(llm_model, token_count)]
    /\ UNCHANGED llm_model

\* a caller starts an agent call: the gateway counters are counted per call
LlmNewCall ==
    /\ llm_calls' = 0
    /\ llm_sent' = 0
    /\ llm_last' = NoCall
    /\ UNCHANGED llm_model

\* OpenAILLM.query called directly
LlmQuery ==
    /\ llm_calls < MaxRequests
    /\ \E t \in TokenInputs(llm_model), net \in NetOutcomes :
          LlmInvoke("query", t, net)
    /\ LlmFrame

\* OpenAILLM.structured_query called directly
LlmStructuredQuery ==
    /\ llm_calls < MaxRequests
    /\ \E t \in TokenInputs(llm_model), net \in NetOutcomes :
          LlmInvoke("structured_query", t, net)
    /\ LlmFrame

----------------------------------------------------------------------------
(* SQLiteAgent.query: agents.py:282-348 *)

Questions == {"q1", "q2"}
Queries == {"SELECT a", "SELECT b"}
\* str(e) of what pd.read_sql raises
SqlErrors == {"OperationalError", "DatabaseError"}
\* result sets of an execution: the empty frame and a non-empty one
RowSets == {"empty", "rows"}
\* texts the hosted model returns to a free-text completion
Completions == {"", "text"}

NoResponse == [sql_query |-> "unset", explanation |-> "unset"]

\* shapes of the database: its tables
Shapes == {"t1", "t1,t2"}
\* agents.py:254-280: json.dumps(schema) of a database of that shape
BuildSchema(shape) == <<"schema", shape>>

\* a mutant of the prompts: the schema is read again from the database
SchemaInPrompt_Refreshed(schema_json, source) == BuildSchema(source.now)

\* agents.py:296, 302, 312: the architecture the prompt embeds
SchemaInPrompt(schema_json, source) == schema_json

\* the record of one request: nothing generated, nothing caught yet
Attempt(schema) == [schema |-> schema, query |-> "none", error |-> ""]

Result(kind, text, n) == [kind |-> kind, text |-> text, n |-> n]
Pending == Result("pending", "", 0)

\* agents.py:324
NoResultsMessage == Result("no_results", "", 0)
\* agents.py:344: f"SQL query failed after {retries + 1} attempt(s): {str(e)}"
FailureMessage(retries, e) == Result("failed", e, retries + 1)
\* agents.py:348
AllFailedMessage == Result("all_failed", "", 0)
\* agents.py:335: summary or "I ran the query but couldn't summarize ..."
SummaryOrFallback(text) ==
    IF text = "" THEN Result("fallback", "", 0)
    ELSE Result("answer", text, 0)
\* an exception leaving the call
Raised(e) == Result("raised", e, 0)

\* a mutant of the request: a repair does not quote the captured error
GenerationRequest_NoError(att, question, response, err) ==
    IF att > 0
    THEN [kind |-> "repair", question |-> question,
          prev_query |-> response.sql_query, error |-> ""]
    ELSE [kind |-> "generate", question |-> question,
          prev_query |-> "", error |-> ""]

\* agents.py:310-315: the request of this iteration
GenerationRequest(att, question, response, err) ==
    IF att > 0
    THEN [kind |-> "repair", question |-> question,
          prev_query |-> response.sql_query, error |-> err]
    ELSE [kind |-> "generate", question |-> question,
          prev_query |-> "", error |-> ""]

\* a mutant of the loop: the loop test is attempts < retries
SqlLoopHead_Strict(att, retries) ==
    IF att < retries THEN "generate" ELSE "done"

\* a mutant of the loop: a retry re-executes without asking for a repair
SqlLoopHead_NoRepair(att, retries) ==
    IF att <= retries THEN (IF att > 0 THEN "execute" ELSE "generate")
    ELSE "done"

\* agents.py:309: the loop test, and the return that follows the loop
SqlLoopHead(att, retries) ==
    IF att <= retries THEN "generate" ELSE "done"

\* SQLiteAgent.query is called
SqlCallBody(question, retries) ==
    /\ sql_prompt' = question
    /\ sql_retries' = retries
    /\ attempts' = 0
    /\ error_context' = ""
    /\ sql_answer' = "none"
    /\ summary' = "none"
    /\ sql_genLog' = <<>>
    /\ sql_trace' = <<>>
    /\ sql_attemptLog' = <<>>
    /\ sql_pc' = SqlLoopHead(0, retries)
    /\ sql_result' = IF SqlLoopHead(0, retries) = "done"
                     THEN AllFailedMessage ELSE Pending
    /\ UNCHANGED <<sql_response_, schema_json_, sql_source>>

SqlCall ==
    /\ sql_pc \in {"idle", "done"}
    /\ \E question \in Questions, retries \in -1 .. MaxRetries :
          SqlCallBody(question, retries)
    /\ LlmNewCall
    /\ SqlFrame

\* agents.py:310-315: Generate (attempts = 0) or Repair (attempts > 0)
SqlGenerate ==
    /\ sql_pc = "generate"
    /\ sql_genLog' = Append(sql_genLog,
          GenerationRequest(attempts, sql_prompt, sql_response_, error_context))
    /\ sql_trace' = Append(sql_trace, "gen")
    /\ \E t \in TokenInputs(llm_model), net \in NetOutcomes :
          /\ LlmInvoke("structured_query", t, net)
          /\ IF GatewayOutcome(llm_model, t, net) = "ok"
             THEN /\ \E q \in Queries :
                       /\ sql_response_' =
                             [sql_query |-> q, explanation |-> "why"]
                       /\ sql_attemptLog' = Append(sql_attemptLog,
                             [Attempt(SchemaInPrompt(schema_json_, sql_source))
                                 EXCEPT !.query = q])
                  /\ sql_pc' = "execute"
                  /\ UNCHANGED sql_result
             ELSE \* the call is outside the try block: the exception leaves query
                  /\ sql_pc' = "done"
                  /\ sql_result' =
                        Raised(GatewayError(GatewayOutcome(llm_model, t, net)))
                  /\ sql_attemptLog' = Append(sql_attemptLog,
                        Attempt(SchemaInPrompt(schema_json_, sql_source)))
                  /\ UNCHANGED sql_response_
    /\ UNCHANGED <<sql_prompt, sql_retries, attempts, error_context,
                   sql_answer, summary, schema_json_, sql_source>>
    /\ SqlFrame

\* a mutant of the except block: the retry test is attempts > retries
SqlExceptReturns_Late(att, retries) == att > retries

\* a mutant of the except block: gives up one attempt early
SqlExceptReturns_Early(att, retries) == att + 1 >= retries

\* agents.py:343: does the except block return the failure message?
SqlExceptReturns(att, retries) == att >= retries

\* agents.py:337-346: the except block, then attempts += 1 and the loop test
SqlExcept(e) ==
    /\ error_context' = e
    /\ sql_attemptLog' =
          [sql_attemptLog EXCEPT ![Len(sql_attemptLog)].error = e]
    /\ IF SqlExceptReturns(attempts, sql_retries)
       THEN /\ sql_pc' = "done"
            /\ sql_result' = FailureMessage(sql_retries, e)
            /\ UNCHANGED attempts
       ELSE /\ attempts' = attempts + 1
            /\ sql_pc' = SqlLoopHead(attempts + 1, sql_retries)
            /\ sql_result' = IF SqlLoopHead(attempts + 1, sql_retries) = "done"
                             THEN AllFailedMessage ELSE Pending

\* a mutant of the empty-result branch: an empty frame goes on to Summarize
SqlAfterRows_NoEmptyCheck(rows) == "summarize"

\* agents.py:323-334: an empty frame returns at once, rows go to Summarize
SqlAfterRows(rows) == IF rows = "empty" THEN "done" ELSE "summarize"

\* agents.py:320-324: pd.read_sql(self.response_.sql_query, self.engine_)
SqlExecute ==
    /\ sql_pc = "execute"
    /\ \/ \E e \in SqlErrors :
             /\ sql_trace' = Append(sql_trace, "raised")
             /\ SqlExcept(e)
             /\ UNCHANGED sql_answer
       \/ \E rows \in RowSets :
             /\ sql_trace' = Append(sql_trace, rows)
             /\ sql_answer' = rows
             /\ sql_pc' = SqlAfterRows(rows)
             /\ sql_result' = IF SqlAfterRows(rows) = "done"
                              THEN NoResultsMessage ELSE Pending
             /\ UNCHANGED <<attempts, error_context, sql_attemptLog>>
    /\ UNCHANGED <<sql_prompt, sql_retries, sql_response_, summary,
                   sql_genLog, schema_json_, sql_source>>
    /\ UNCHANGED llmVars
    /\ SqlFrame

\* agents.py:326-335: Summarize; the call is inside the try block, so what
\* the gateway raises is handled by the same except block
SqlSummarize ==
    /\ sql_pc = "summarize"
    /\ sql_trace' = Append(sql_trace, "sum")
    /\ \E t \in TokenInputs(llm_model), net \in NetOutcomes :
          /\ LlmInvoke("query", t, net)
          /\ IF GatewayOutcome(llm_model, t, net) = "ok"
             THEN /\ \E text \in Completions :
                       /\ summary' = text
                       /\ sql_result' = SummaryOrFallback(text)
                  /\ sql_pc' = "done"
                  /\ UNCHANGED <<attempts, error_context, sql_attemptLog>>
             ELSE /\ SqlExcept(GatewayError(GatewayOutcome(llm_model, t, net)))
                  /\ UNCHANGED summary
    /\ UNCHANGED <<sql_prompt, sql_retries, sql_response_, sql_answer,
                   sql_genLog, schema_json_, sql_source>>
    /\ SqlFrame

\* the database behind engine_ gains or loses a table after construction
SqlSourceChanges ==
    /\ \E shape \in Shapes \ {sql_source.now} :
          sql_source' = [sql_source EXCEPT !.now = shape]
    /\ UNCHANGED <<sql_pc, sql_prompt, sql_retries, attempts, error_context,
                   sql_response_, sql_answer, sql_result, summary, sql_genLog,
                   sql_trace, schema_json_, sql_attemptLog>>
    /\ UNCHANGED llmVars
    /\ SqlFrame

----------------------------------------------------------------------------
(* ChromaDBVectorDB.retrieve: vector_databases.py:244-277 *)

Chunks == {"c1", "c2", "c3"}

\* The distance, in hundredths, the index reports between the embedding of a
\* question and that of a chunk (the embedder and the metric are fixed).
Distance(question, chunk) ==
    CASE question = "q1" /\ chunk = "c1" -> 20
      [] question = "q1" /\ chunk = "c2" -> 65
      [] question = "q1" /\ chunk = "c3" -> 90
      [] question = "q2" /\ chunk = "c1" -> 90
      [] question = "q2" /\ chunk = "c2" -> 66
      [] question = "q2" /\ chunk = "c3" -> 97

\* the positions of the k rows nearest to the question, nearest first (rows at
\* the same distance in insertion order)
RECURSIVE Nearest(_, _, _, _)
Nearest(rows, question, left, k) ==
    IF k <= 0 \/ left = {} THEN <<>>
    ELSE LET i == CHOOSE i \in left : \A j \in left :
                     \/ Distance(question, rows[i]) < Distance(question, rows[j])
                     \/ /\ Distance(question, rows[i]) = Distance(question, rows[j])
                        /\ i <= j
         IN <<i>> \o Nearest(rows, question, left \ {i}, k - 1)

\* collection_.query(query_embeddings, n_results=k): results["documents"][0]
\* and results["distances"][0]
IndexQuery(rows, question, k) ==
    LET near == Nearest(rows, question, DOMAIN rows, k) IN
    [raised    |-> FALSE,
     docs      |-> [n \in DOMAIN near |-> rows[near[n]]],
     distances |-> [n \in DOMAIN near |-> Distance(question, rows[near[n]])]]

RetrieveRaised == [raised |-> TRUE, docs |-> <<>>, distances |-> <<>>]

\* ChromaDBVectorDB.retrieve: raises without a collection; the index may
\* reject n_results = 0 or answer it with no rows
Retrieve(attached, rows, question, k) ==
    IF ~attached THEN {RetrieveRaised}
    ELSE IF k = 0 THEN {RetrieveRaised, IndexQuery(rows, question, k)}
    ELSE {IndexQuery(rows, question, k)}

----------------------------------------------------------------------------
(* ChromaAgent.query: agents.py:160-216 *)

\* values of k that are explored: 0 .. MaxK
KValues == 0 .. MaxK
\* values of max_distance that are explored, in hundredths: the default
\* (agents.py:160) and the one the chatbot configures (agent_helpers.py:32)
MaxDistances == {65, 95}

\* the value None that query returns when it refuses
Refusal == Result("refusal", "", 0)

NoPrompt == [system |-> "unset", context |-> <<>>, question |-> "unset"]

\* agents.py:188: min(self.distances_); defined on a non-empty list only
Min(ds) == CHOOSE d \in {ds[i] : i \in DOMAIN ds} :
               \A i \in DOMAIN ds : d <= ds[i]

\* a mutant of the gate: refuses at the threshold itself
RagRefuses_AtThreshold(mindist, max_distance) == mindist >= max_distance

\* agents.py:189: the confidence gate
RagRefuses(mindist, max_distance) == mindist > max_distance

\* a mutant of the context: only the chunks under the threshold are kept
ContextStr_OnlyNear(docs, dists, max_distance) ==
    LET keep == SelectSeq([i \in DOMAIN docs |-> i],
                          LAMBDA i : dists[i] <= max_distance) IN
    [n \in DOMAIN keep |-> <<"- ", docs[keep[n]]>>]

\* agents.py:209: "\n\n".join(f"- {doc}" for doc in self.docs_)
ContextStr(docs, dists, max_distance) ==
    [i \in DOMAIN docs |-> <<"- ", docs[i]>>]

\* agents.py:200-212: the system prompt, the context blocks, the question
BuildPrompt(docs, dists, max_distance, question) ==
    [system   |-> "rag_system_prompt",
     context  |-> ContextStr(docs, dists, max_distance),
     question |-> question]

\* ChromaAgent.query is called
RagCallBody(question, k, max_distance, show_citations) ==
    /\ rag_question' = question
    /\ rag_k' = k
    /\ rag_max_distance' = max_distance
    /\ rag_show_citations' = show_citations
    /\ rag_pc' = "retrieve"
    /\ rag_result' = Pending
    /\ rag_retrieved' = RetrieveRaised
    /\ rag_llmCalls' = 0
    /\ UNCHANGED <<docs_, distances_, rag_prompt_, rag_response_>>

RagCall ==
    /\ rag_pc \in {"idle", "done"}
    /\ \E question \in Questions, k \in KValues, max_distance \in MaxDistances,
          show_citations \in BOOLEAN :
          RagCallBody(question, k, max_distance, show_citations)
    /\ LlmNewCall
    /\ RagFrame

\* a mutant of the assignment: the trace is kept only when citations are shown
AssignTrace_OnlyWithCitations(r, docs, distances, show_citations) ==
    IF show_citations
    THEN [docs_ |-> r.docs, distances_ |-> r.distances]
    ELSE [docs_ |-> docs, distances_ |-> distances]

\* agents.py:179: the two fields after the tuple returned by retrieve has been
\* assigned to them, whatever they held and whatever show_citations is
AssignTrace(r, docs, distances, show_citations) ==
    [docs_ |-> r.docs, distances_ |-> r.distances]

\* agents.py:179: self.docs_, self.distances_ = self.vectordb_.retrieve(...)
RagRetrieve ==
    /\ rag_pc = "retrieve"
    /\ \E r \in Retrieve(vdb_attached, vdb_rows, rag_question, rag_k) :
          /\ rag_retrieved' = r
          /\ IF r.raised
             THEN /\ rag_pc' = "done"
                  /\ rag_result' = Raised("ValueError: retrieve")
                  /\ UNCHANGED <<docs_, distances_>>
             ELSE /\ rag_pc' = "gate"
                  /\ docs_' = AssignTrace(r, docs_, distances_,
                                          rag_show_citations).docs_
                  /\ distances_' = AssignTrace(r, docs_, distances_,
                                               rag_show_citations).distances_
                  /\ UNCHANGED rag_result
    /\ UNCHANGED <<rag_question, rag_k, rag_max_distance, rag_show_citations,
                   rag_prompt_, rag_response_, rag_llmCalls>>
    /\ UNCHANGED llmVars
    /\ RagFrame

\* agents.py:181-212: the citations are printed, then the confidence gate,
\* then the prompt is built
RagGate ==
    /\ rag_pc = "gate"
    /\ IF distances_ = <<>>
       THEN \* min() of an empty list raises ValueError
            /\ rag_pc' = "done"
            /\ rag_result' = Raised("ValueError: min() arg is an empty sequence")
            /\ UNCHANGED rag_prompt_
       ELSE IF RagRefuses(Min(distances_), rag_max_distance)
       THEN /\ rag_pc' = "done"
            /\ rag_result' = Refusal
            /\ UNCHANGED rag_prompt_
       ELSE /\ rag_pc' = "complete"
            /\ rag_prompt_' = BuildPrompt(docs_, distances_, rag_max_distance,
                                          rag_question)
            /\ UNCHANGED rag_result
    /\ UNCHANGED <<rag_question, rag_k, rag_max_distance, rag_show_citations,
                   docs_, distances_, rag_response_, rag_retrieved,
                   rag_llmCalls>>
    /\ UNCHANGED llmVars
    /\ RagFrame

\* agents.py:215-216: self.response_ = self.llm_.query(self.prompt_)
RagComplete ==
    /\ rag_pc = "complete"
    /\ rag_llmCalls' = rag_llmCalls + 1
    /\ rag_pc' = "done"
    /\ \E t \in TokenInputs(llm_model), net \in NetOutcomes :
          /\ LlmInvoke("query", t, net)
          /\ IF GatewayOutcome(llm_model, t, net) = "ok"
             THEN \E text \in Completions :
                     /\ rag_response_' = text
                     /\ rag_result' = Result("answer", text, 0)
             ELSE /\ rag_result' =
                        Raised(GatewayError(GatewayOutcome(llm_model, t, net)))
                  /\ UNCHANGED rag_response_
    /\ UNCHANGED <<rag_question, rag_k, rag_max_distance, rag_show_citations,
                   docs_, distances_, rag_prompt_, rag_retrieved>>
    /\ RagFrame

----------------------------------------------------------------------------
(* MultiAgent: agents.py:471-530 *)

\* The configurations explored: one ChromaAgent ("rag") and one SQLiteAgent
\* ("sql"), alone or together in either order.
AgentLists == {<<"rag">>, <<"rag", "sql">>, <<"sql", "rag">>}

\* agent_names_ and agent_query_kwargs_, parallel to agents_
AgentName(agent) == IF agent = "rag" THEN "Text_Agent" ELSE "Database_Agent"
AgentKwargs(agent) ==
    IF agent = "rag"
    THEN [k |-> 1, max_distance |-> 65, show_citations |-> TRUE]
    ELSE [retries |-> 1]
agent_names_ == [i \in DOMAIN agents_ |-> AgentName(agents_[i])]
agent_query_kwargs_ == [i \in DOMAIN agents_ |-> AgentKwargs(agents_[i])]

\* the values of response.agent_integer that are explored
ClassifierOutputs == -3 .. 3

NoConductorResponse == [answered |-> FALSE, agent_integer |-> 0]

\* Python's list[i]: whether it is defined (no IndexError) ...
PyInRange(seq, i) == -Len(seq) <= i /\ i < Len(seq)

\* ... and its value: a negative index counts from the end
PyGet(seq, i) ==
    IF i >= 0 THEN seq[i + 1] ELSE seq[Len(seq) + i + 1]

\* the backends' dead locals and return values, cleared between calls
SqlReturnToIdle ==
    /\ sql_pc' = "idle"
    /\ sql_prompt' = "q1"
    /\ sql_retries' = 0
    /\ attempts' = 0
    /\ error_context' = ""
    /\ sql_answer' = "none"
    /\ sql_result' = Pending
    /\ summary' = "none"
    /\ sql_genLog' = <<>>
    /\ sql_trace' = <<>>
    /\ sql_attemptLog' = <<>>
    /\ UNCHANGED <<sql_response_, schema_json_, sql_source>>

RagReturnToIdle ==
    /\ rag_pc' = "idle"
    /\ rag_question' = "q1"
    /\ rag_k' = 0
    /\ rag_max_distance' = 65
    /\ rag_show_citations' = FALSE
    /\ rag_result' = Pending
    /\ rag_retrieved' = RetrieveRaised
    /\ rag_llmCalls' = 0
    /\ UNCHANGED <<docs_, distances_, rag_prompt_, rag_response_>>

\* MultiAgent.query is called
MaCallBody ==
    /\ ma_pc \in {"idle", "done"}
    /\ \E question \in Questions : ma_question' = question
    /\ ma_pc' = "classify"
    /\ ma_response' = NoConductorResponse
    /\ ma_result' = Pending
    /\ ma_classifyCalls' = 0
    /\ ma_forwardLog' = <<>>
    /\ UNCHANGED <<agents_, last_agent_, last_agent_name_>>
    /\ SqlReturnToIdle
    /\ RagReturnToIdle
    /\ LlmNewCall

MaCall == MaCallBody /\ MaFrame

\* agents.py:530: self.agents_[agent_index].query(prompt, **kwargs)
MaForward(agent, question, kwargs) ==
    /\ ma_forwardLog' = Append(ma_forwardLog,
          [agent |-> agent, question |-> question, kwargs |-> kwargs])
    /\ IF agent = "rag"
       THEN /\ RagCallBody(question, kwargs.k, kwargs.max_distance,
                           kwargs.show_citations)
            /\ UNCHANGED sqlVars
       ELSE /\ SqlCallBody(question, kwargs.retries)
            /\ UNCHANGED ragVars

\* a mutant of the routing: a failed lookup clears the record of the agent
MaRoute_ClearsOnError(agent_index) ==
    IF ~PyInRange(agents_, agent_index)
    THEN /\ ma_pc' = "done"
         /\ ma_result' = Raised("IndexError: list index out of range")
         /\ last_agent_' = "unset"
         /\ last_agent_name_' = "unset"
         /\ UNCHANGED <<ma_forwardLog, sqlVars, ragVars>>
    ELSE /\ last_agent_' = PyGet(agents_, agent_index)
         /\ last_agent_name_' = PyGet(agent_names_, agent_index)
         /\ MaForward(PyGet(agents_, agent_index), ma_question,
                      PyGet(agent_query_kwargs_, agent_index))
         /\ ma_pc' = "forward"
         /\ UNCHANGED ma_result

\* a mutant of the routing: the question always goes to the first agent
MaRoute_ForwardFirst(agent_index) ==
    IF ~PyInRange(agents_, agent_index)
    THEN /\ ma_pc' = "done"
         /\ ma_result' = Raised("IndexError: list index out of range")
         /\ UNCHANGED <<last_agent_, last_agent_name_, ma_forwardLog,
                        sqlVars, ragVars>>
    ELSE /\ last_agent_' = PyGet(agents_, agent_index)
         /\ last_agent_name_' = PyGet(agent_names_, agent_index)
         /\ MaForward(PyGet(agents_, 0), ma_question,
                      PyGet(agent_query_kwargs_, 0))
         /\ ma_pc' = "forward"
         /\ UNCHANGED ma_result

\* agents.py:520-530: the lookups by agent_index, the record of the agent
\* used, the forwarded call
MaRoute(agent_index) ==
    IF ~PyInRange(agents_, agent_index)
    THEN \* agents.py:523: IndexError, before anything is recorded
         /\ ma_pc' = "done"
         /\ ma_result' = Raised("IndexError: list index out of range")
         /\ UNCHANGED <<last_agent_, last_agent_name_, ma_forwardLog,
                        sqlVars, ragVars>>
    ELSE /\ last_agent_' = PyGet(agents_, agent_index)
         /\ last_agent_name_' = PyGet(agent_names_, agent_index)
         /\ MaForward(PyGet(agents_, agent_index), ma_question,
                      PyGet(agent_query_kwargs_, agent_index))
         /\ ma_pc' = "forward"
         /\ UNCHANGED ma_result

\* agents.py:517-518: the classification request
MaClassify ==
    /\ ma_pc = "classify"
    /\ ma_classifyCalls' = ma_classifyCalls + 1
    /\ \E t \in TokenInputs(llm_model), net \in NetOutcomes :
          /\ LlmInvoke("structured_query", t, net)
          /\ IF GatewayOutcome(llm_model, t, net) = "ok"
             THEN \E agent_index \in ClassifierOutputs :
                     /\ ma_response' = [answered |-> TRUE,
                                        agent_integer |-> agent_index]
                     /\ MaRoute(agent_index)
             ELSE /\ ma_pc' = "done"
                  /\ ma_result' =
                        Raised(GatewayError(GatewayOutcome(llm_model, t, net)))
                  /\ UNCHANGED <<ma_response, last_agent_, last_agent_name_,
                                 ma_forwardLog, sqlVars, ragVars>>
    /\ UNCHANGED <<agents_, ma_question>>
    /\ MaFrame

\* agents.py:530: the backend's query has returned or raised; so does query
MaReturn ==
    /\ ma_pc = "forward"
    /\ \/ /\ last_agent_ = "rag"
          /\ rag_pc = "done"
          /\ ma_result' = rag_result
       \/ /\ last_agent_ = "sql"
          /\ sql_pc = "done"
          /\ ma_result' = sql_result
    /\ ma_pc' = "done"
    /\ UNCHANGED <<agents_, ma_question, ma_response, last_agent_,
                   last_agent_name_, ma_classifyCalls, ma_forwardLog>>
    /\ UNCHANGED <<llmVars, sqlVars, ragVars>>
    /\ MaFrame

----------------------------------------------------------------------------
(* MultiAgent.__init__ over agents just constructed: agents.py:475-514,     *)
(* ExcelAgent.__init__ and _build_schema: agents.py:363-449                 *)

\* most agents given to one MultiAgent
MaxAgents == 2

\* the classes a backend can be constructed as
AgentClasses == {"ChromaAgent", "SQLiteAgent", "ExcelAgent"}

\* agents.py:446-449: _build_schema ends with self.__class__ = SQLiteAgent;
\* the other constructors leave the class alone
ClassAfterConstruction(constructed_as) ==
    IF constructed_as = "ExcelAgent" THEN "SQLiteAgent" ELSE constructed_as

\* agents.py:503-507 and type_tags.get(..., '') at line 513
type_tags(type_name) ==
    CASE type_name = "ChromaAgent" -> "Qualitative questions related to: "
      [] type_name = "SQLiteAgent" ->
            "Quantitative questions answerable with SQL related to: "
      [] type_name = "ExcelAgent" ->
            "Spreadsheet-based questions from race data ... related to: "
      [] OTHER -> ""

\* descriptions given for an agent, as sequences of characters
Descriptions == {<<"d">>, <<"d", ".">>, <<" ", "d">>}

\* str.strip(c): the characters c removed from both ends
RECURSIVE Strip(_, _)
Strip(str, c) ==
    IF str = <<>> THEN <<>>
    ELSE IF Head(str) = c THEN Strip(Tail(str), c)
    ELSE IF str[Len(str)] = c THEN Strip(SubSeq(str, 1, Len(str) - 1), c)
    ELSE str

\* agents.py:510-512: desc.strip(), with a final '.' added when missing
FinalDesc(desc) ==
    IF Strip(desc, " ") # <<>> /\ Strip(desc, " ")[Len(Strip(desc, " "))] = "."
    THEN Strip(desc, " ")
    ELSE Append(Strip(desc, " "), ".")

\* most sheets of a workbook
MaxSheets == 2

\* characters that the pattern \w matches, and those that \s matches
WordChars == {"a", "b", "_"}
SpaceChars == {" "}

\* sheet names, as sequences of characters
SheetNames ==
    {<<"a">>, <<"b">>, <<"a", " ", "b">>, <<"a", "_", "b">>,
     <<"a", "-", " ", "b">>, <<"_", "a">>}

\* agents.py:433: the sheets of a workbook have pairwise distinct names
Workbooks ==
    {wb \in UNION {[1 .. n -> SheetNames] : n \in 1 .. MaxSheets} :
        \A i, j \in DOMAIN wb : i # j => wb[i] # wb[j]}

\* agents.py:424: re.sub(r'[^\w\s]', '_', name)
ReplacePunct(name) ==
    [i \in DOMAIN name |->
        IF name[i] \in WordChars \cup SpaceChars THEN name[i] ELSE "_"]

\* the characters of str after its leading characters in set
RECURSIVE DropLeading(_, _)
DropLeading(str, set) ==
    IF str # <<>> /\ Head(str) \in set THEN DropLeading(Tail(str), set)
    ELSE str

\* agents.py:426-427: re.sub(r'\s+', '_', ...) and re.sub(r'_+', '_', ...):
\* every run of characters of set becomes one underscore
RECURSIVE CollapseRuns(_, _)
CollapseRuns(str, set) ==
    IF str = <<>> THEN <<>>
    ELSE IF Head(str) \in set
    THEN <<"_">> \o CollapseRuns(DropLeading(str, set), set)
    ELSE <<Head(str)>> \o CollapseRuns(Tail(str), set)

\* agents.py:420-430
clean_table_name(name) ==
    Strip(CollapseRuns(CollapseRuns(ReplacePunct(name), SpaceChars), {"_"}),
          "_")

\* a database without tables
NoTables == [n \in {} |-> <<>>]

\* agents.py:436: data.to_sql(table_name, conn, if_exists='replace')
ToSql(tables, table_name, data) ==
    [n \in DOMAIN tables \cup {table_name} |->
        IF n = table_name THEN data ELSE tables[n]]

\* agents.py:401-417: the workbook is opened and temp.db removed; when the
\* removal raises, the bare except passes and the old file is reused
XlOpen ==
    /\ xl_pc \in {"idle", "done"}
    /\ \E wb \in Workbooks : xl_sheets' = wb
    /\ \E removed \in BOOLEAN :
          xl_tables' = IF removed THEN NoTables ELSE xl_tables
    /\ xl_i' = 0
    /\ xl_pc' = "sheets"
    /\ XlFrame

\* agents.py:433-436: one sheet is read and uploaded
XlUpload ==
    /\ xl_pc = "sheets"
    /\ xl_i < Len(xl_sheets)
    /\ xl_tables' = ToSql(xl_tables, clean_table_name(xl_sheets[xl_i + 1]),
                          xl_sheets[xl_i + 1])
    /\ xl_i' = xl_i + 1
    /\ UNCHANGED <<xl_pc, xl_sheets>>
    /\ XlFrame

\* agents.py:443-449: commit, close, and the instance becomes a SQLiteAgent
XlFinish ==
    /\ xl_pc = "sheets"
    /\ xl_i = Len(xl_sheets)
    /\ xl_pc' = "done"
    /\ UNCHANGED <<xl_sheets, xl_i, xl_tables>>
    /\ XlFrame

\* a backend is constructed and added to the list given to MultiAgent
MiConstructAgent ==
    /\ mi_pc = "agents"
    /\ Len(mi_agents) < MaxAgents
    /\ \E c \in AgentClasses :
          mi_agents' = Append(mi_agents,
             [constructed_as |-> c, class |-> ClassAfterConstruction(c)])
    /\ UNCHANGED <<mi_pc, mi_descs, agent_types_, ma_prompt_>>
    /\ InitFrame

\* agents.py:481-502: MultiAgent.__init__ up to the loop
MiInit ==
    /\ mi_pc = "agents"
    /\ mi_agents # <<>>
    /\ \E descs \in [DOMAIN mi_agents -> Descriptions] : mi_descs' = descs
    /\ agent_types_' = [i \in DOMAIN mi_agents |-> mi_agents[i].class]
    /\ ma_prompt_' = <<>>
    /\ mi_pc' = "describe"
    /\ UNCHANGED mi_agents
    /\ InitFrame

\* agents.py:509-513: one iteration of the loop over the descriptions
MiDescribe ==
    /\ mi_pc = "describe"
    /\ ma_prompt_' = Append(ma_prompt_,
          [index |-> Len(ma_prompt_),
           framing |-> type_tags(agent_types_[Len(ma_prompt_) + 1]),
           final_desc |-> FinalDesc(mi_descs[Len(ma_prompt_) + 1])])
    /\ mi_pc' = IF Len(ma_prompt_) + 1 = Len(mi_descs)
                THEN "ready" ELSE "describe"
    /\ UNCHANGED <<mi_agents, mi_descs, agent_types_>>
    /\ InitFrame

----------------------------------------------------------------------------
(* query_race_agent: agent_helpers.py:45-71 *)

\* nothing returned yet
NoOutcome == [kind |-> "pending", response |-> Pending, trace |-> <<>>]

\* agent_helpers.py:71: the fixed message returned with the error text
ErrorMessage == Result("error_message", "", 0)

\* agent_helpers.py:59-62: the chunks of a ChromaAgent, or the placeholder
TraceBody(agent, docs) ==
    IF agent = "rag" THEN docs ELSE <<"Trace not available.">>

\* a mutant of the handler: an exception of the routing leaves the function
QraOutcome_Propagates(result, agent, name, docs) ==
    IF result.kind = "raised"
    THEN [kind |-> "raised", response |-> result, trace |-> <<>>]
    ELSE [kind |-> "returned", response |-> result,
          trace |-> <<"agent", name, TraceBody(agent, docs)>>]

\* agent_helpers.py:46-71: the try block and its handler
QraOutcome(result, agent, name, docs) ==
    IF result.kind = "raised"
    THEN [kind |-> "returned", response |-> ErrorMessage,
          trace |-> <<"error", result.text>>]
    ELSE [kind |-> "returned", response |-> result,
          trace |-> <<"agent", name, TraceBody(agent, docs)>>]

\* agent_helpers.py:45-47: query_race_agent calls multi_agent.query
QraCall ==
    /\ qra_pc \in {"idle", "done"}
    /\ qra_pc' = "running"
    /\ qra_out' = NoOutcome
    /\ MaCallBody
    /\ QraFrame

\* agent_helpers.py:47: a step of multi_agent.query, which is running
QraStep ==
    /\ qra_pc = "running"
    /\ \/ MaClassify \/ MaReturn
       \/ RagRetrieve \/ RagGate \/ RagComplete
       \/ SqlGenerate \/ SqlExecute \/ SqlSummarize

\* agent_helpers.py:47-71: multi_agent.query has returned or raised
QraReturn ==
    /\ qra_pc = "running"
    /\ ma_pc = "done"
    /\ qra_pc' = "done"
    /\ qra_out' = QraOutcome(ma_result, last_agent_, last_agent_name_, docs_)
    /\ UNCHANGED <<llmVars, sqlVars, ragVars, maVars>>
    /\ QraFrame

----------------------------------------------------------------------------
(* ChromaDBVectorDB: vector_databases.py:113-277 *)

\* largest number of operations called on one store that is explored
MaxOps == 4
\* largest number of documents one add_to_collection call extracts
MaxDocs == 2

\* Collection names, character by character: a plain one, one with a space
\* and one with a tab inside.
CollectionNames == {<<"d", "b">>, <<"d", " ", "b">>, <<"d", "\t", "b">>}

\* self.collection_ is None
NoCollection == <<>>

\* vector_databases.py:182: ' ' in collection_name
HasSpace(name) == \E i \in DOMAIN name : name[i] = " "

\* a row of a collection: ids=[...], documents=[...] of one collection_.add
Row(id, chunk) == [id |-> id, document |-> chunk]

\* the documents of a list of rows, in insertion order
Docs(rows) == [i \in DOMAIN rows |-> rows[i].document]

\* a mutant of the append: a chunk whose text is already stored is skipped
AppendRow_Dedup(rows, id, chunk) ==
    IF \E i \in DOMAIN rows : rows[i].document = chunk
    THEN rows
    ELSE Append(rows, Row(id, chunk))

\* vector_databases.py:238-242: collection_.add of one chunk under a new id
AppendRow(rows, id, chunk) == Append(rows, Row(id, chunk))

\* a mutant of the constructor: the distance measure is not looked at
RetrievalOnly_IgnoresMeasure(te, ch, dm) == te = "None" \/ ch = "None"

\* vector_databases.py:143-145: retrieval_only_
RetrievalOnly(te, ch, dm) == te = "None" \/ ch = "None" \/ dm = "None"

\* a mutant of initialize_collection: the client is not looked at
InitCollectionError_NoClientCheck(client, name) ==
    IF HasSpace(name) THEN "ValueError: Collection name cannot contain spaces."
    ELSE "none"

\* vector_databases.py:179-183: the two checks of initialize_collection
InitCollectionError(client, name) ==
    IF ~client
    THEN "ValueError: Database is not initialized. Call initialize_db first."
    ELSE IF HasSpace(name)
    THEN "ValueError: Collection name cannot contain spaces."
    ELSE "none"

\* a mutant of the failure path: the rows of the failed call are removed
RowsWhenAddRaises_RolledBack(rows, rows0) == rows0

\* vector_databases.py:224-242: nothing catches an exception of the loop, so
\* the collection keeps what the call had appended
RowsWhenAddRaises(rows, rows0) == rows

\* the calls an operation made to its collaborators
NoCalls == [extract |-> 0, chunk |-> 0, embed |-> 0, index |-> 0]

\* the record of an operation: what was called, with what, how it ended
Op(op, name, error, before, calls, stage) ==
    [op |-> op, name |-> name, raised |-> error # "none", error |-> error,
     before |-> before, calls |-> calls, stage |-> stage]

NoOp == Op("none", <<>>, "none", NoCollection, NoCalls, "none")

\* the rows of the active collection
ActiveRows(db, coll) == IF coll = NoCollection THEN <<>> ELSE db[coll]

\* vdb_attached and vdb_rows are what ChromaAgent sees of the store
StoreView ==
    /\ vdb_attached' = (collection_' # NoCollection)
    /\ vdb_rows' = Docs(ActiveRows(vdb_db', collection_'))

\* what the construction arguments fix
StoreConfig == <<text_extractor_, chunker_, distance_measure_, vdb_db0>>

\* locals and logs of add_to_collection
addLocals == <<add_documents, add_i, add_chunks, add_idx, add_rows0,
               add_produced, add_calls>>

\* vector_databases.py:152-163: initialize_db
VdbInitializeDb ==
    /\ add_pc = "idle"
    /\ vdb_ops < MaxOps
    /\ vdb_ops' = vdb_ops + 1
    /\ \E ok \in BOOLEAN :
          IF ok
          THEN /\ client_' = TRUE
               /\ vdb_dbInitOk' = TRUE
               /\ vdb_last' = Op("initialize_db", <<>>, "none", collection_,
                                 NoCalls, "none")
          ELSE \* os.makedirs or PersistentClient raises
               /\ vdb_last' = Op("initialize_db", <<>>, "OSError", collection_,
                                 NoCalls, "none")
               /\ UNCHANGED <<client_, vdb_dbInitOk>>
    /\ UNCHANGED <<collection_, vdb_db, vdb_uuids, retrieval_only_, add_pc,
                   addLocals, StoreConfig>>
    /\ StoreView
    /\ VdbFrame

\* client_.get_or_create_collection(name): the collection is there afterwards
GetOrCreate(db, name) ==
    [n \in DOMAIN db \cup {name} |-> IF n \in DOMAIN db THEN db[n] ELSE <<>>]

\* vector_databases.py:165-188: initialize_collection
VdbInitializeCollection ==
    /\ add_pc = "idle"
    /\ vdb_ops < MaxOps
    /\ vdb_ops' = vdb_ops + 1
    /\ \E name \in CollectionNames, created \in BOOLEAN :
          LET err == InitCollectionError(client_, name) IN
          IF err # "none"
          THEN /\ vdb_last' = Op("initialize_collection", name, err,
                                 collection_, NoCalls, "check")
               /\ UNCHANGED <<collection_, vdb_db>>
          ELSE IF ~created
          THEN \* get_or_create_collection raises; nothing is assigned
               /\ vdb_last' = Op("initialize_collection", name,
                                 "chromadb error", collection_, NoCalls,
                                 "get_or_create_collection")
               /\ UNCHANGED <<collection_, vdb_db>>
          ELSE /\ collection_' = name
               /\ vdb_db' = GetOrCreate(vdb_db, name)
               /\ vdb_last' = Op("initialize_collection", name, "none",
                                 collection_, NoCalls, "none")
    /\ UNCHANGED <<client_, vdb_dbInitOk, vdb_uuids, retrieval_only_, add_pc,
                   addLocals, StoreConfig>>
    /\ StoreView
    /\ VdbFrame

\* the documents a text extractor returns: one text per supported file, so
\* none, one, ... up to MaxDocs of them
DocumentLists == {[i \in 1 .. n |-> <<"document", i>>] : n \in 0 .. MaxDocs}

\* the chunk lists a chunker returns for a document
ChunkLists == {<<>>, <<"c1">>, <<"c1", "c2">>}

\* add_to_collection raises: the exception leaves the method at once
AddRaise(error, stage, calls) ==
    /\ add_pc' = "idle"
    /\ vdb_last' = Op("add_to_collection", <<>>, error, collection_, calls,
                      stage)
    /\ add_calls' = calls

\* add_to_collection returns
AddReturn(calls) ==
    /\ add_pc' = "idle"
    /\ vdb_last' = Op("add_to_collection", <<>>, "none", collection_, calls,
                      "none")
    /\ add_calls' = calls

\* vector_databases.py:206-222: the checks and the extraction
AddCall ==
    /\ add_pc = "idle"
    /\ vdb_ops < MaxOps
    /\ vdb_ops' = vdb_ops + 1
    /\ add_rows0' = ActiveRows(vdb_db, collection_)
    /\ add_produced' = <<>>
    /\ add_i' = 0
    /\ add_idx' = 0
    /\ add_chunks' = <<>>
    /\ IF retrieval_only_
       THEN /\ AddRaise("ValueError: Vector database is in retrieval only mode.",
                        "check", NoCalls)
            /\ add_documents' = <<>>
       ELSE IF collection_ = NoCollection
       THEN /\ AddRaise("ValueError: No collection selected.", "check", NoCalls)
            /\ add_documents' = <<>>
       ELSE IF text_extractor_ = "None"
       THEN /\ AddRaise("ValueError: No text extractor provided.", "check",
                        NoCalls)
            /\ add_documents' = <<>>
       ELSE \E extracted \in BOOLEAN :
               IF ~extracted
               THEN /\ AddRaise("extract error", "extract",
                                [NoCalls EXCEPT !.extract = 1])
                    /\ add_documents' = <<>>
               ELSE \E documents \in DocumentLists :
                       /\ add_documents' = documents
                       /\ IF documents = <<>>
                          THEN AddReturn([NoCalls EXCEPT !.extract = 1])
                          ELSE /\ add_pc' = "chunk"
                               /\ add_calls' = [NoCalls EXCEPT !.extract = 1]
                               /\ UNCHANGED vdb_last
    /\ UNCHANGED <<client_, vdb_dbInitOk, collection_, vdb_db, vdb_uuids,
                   retrieval_only_, StoreConfig>>
    /\ StoreView
    /\ VdbFrame

\* the collection after add_to_collection has raised
AddRaiseRows ==
    vdb_db' = [vdb_db EXCEPT ![collection_] =
                  RowsWhenAddRaises(@, add_rows0)]

\* vector_databases.py:227: chunks = self.chunker_.chunk(document)[0]
AddChunk ==
    /\ add_pc = "chunk"
    /\ LET calls == [add_calls EXCEPT !.chunk = @ + 1] IN
       \E chunked \in BOOLEAN :
          IF ~chunked
          THEN /\ AddRaise("chunk error", "chunk", calls)
               /\ AddRaiseRows
               /\ UNCHANGED <<add_chunks, add_produced>>
          ELSE \E chunks \in ChunkLists :
                  /\ add_chunks' = chunks
                  /\ add_produced' = Append(add_produced, chunks)
                  /\ add_pc' = "embed"
                  /\ add_calls' = calls
                  /\ UNCHANGED <<vdb_last, vdb_db>>
    /\ UNCHANGED <<client_, vdb_dbInitOk, collection_, vdb_uuids, vdb_ops,
                   retrieval_only_, add_documents, add_i, add_idx, add_rows0,
                   StoreConfig>>
    /\ StoreView
    /\ VdbFrame

\* vector_databases.py:230: chunk_embeddings = self.embedder_.embed(chunks)[0];
\* embedders.py:77 reads text[0], an IndexError when chunks is empty
AddEmbed ==
    /\ add_pc = "embed"
    /\ LET calls == [add_calls EXCEPT !.embed = @ + 1] IN
       IF add_chunks = <<>>
       THEN /\ AddRaise("IndexError: list index out of range", "embed", calls)
            /\ AddRaiseRows
       ELSE \E embedded \in BOOLEAN :
               IF ~embedded
               THEN /\ AddRaise("embed error", "embed", calls)
                    /\ AddRaiseRows
               ELSE /\ add_pc' = "append"
                    /\ add_calls' = calls
                    /\ UNCHANGED <<vdb_last, vdb_db>>
    /\ UNCHANGED <<client_, vdb_dbInitOk, collection_, vdb_uuids, vdb_ops,
                   retrieval_only_, add_documents, add_i, add_chunks, add_idx,
                   add_rows0, add_produced, StoreConfig>>
    /\ StoreView
    /\ VdbFrame

\* vector_databases.py:237-242: one collection_.add per chunk, then the next
\* chunk, the next document, or the end of the call
AddAppend ==
    /\ add_pc = "append"
    /\ vdb_uuids' = vdb_uuids + 1
    /\ LET calls == [add_calls EXCEPT !.index = @ + 1] IN
       \E added \in BOOLEAN :
          IF ~added
          THEN /\ AddRaise("chromadb error", "append", calls)
               /\ AddRaiseRows
               /\ UNCHANGED <<add_i, add_idx>>
          ELSE /\ vdb_db' = [vdb_db EXCEPT ![collection_] =
                     AppendRow(@, vdb_uuids + 1, add_chunks[add_idx + 1])]
               /\ IF add_idx + 1 < Len(add_chunks)
                  THEN /\ add_idx' = add_idx + 1
                       /\ add_calls' = calls
                       /\ UNCHANGED <<add_i, add_pc, vdb_last>>
                  ELSE IF add_i + 1 < Len(add_documents)
                  THEN /\ add_i' = add_i + 1
                       /\ add_idx' = 0
                       /\ add_pc' = "chunk"
                       /\ add_calls' = calls
                       /\ UNCHANGED vdb_last
                  ELSE /\ AddReturn(calls)
                       /\ UNCHANGED <<add_i, add_idx>>
    /\ UNCHANGED <<client_, vdb_dbInitOk, collection_, vdb_ops,
                   retrieval_only_, add_documents, add_chunks, add_rows0,
                   add_produced, StoreConfig>>
    /\ StoreView
    /\ VdbFrame

\* vector_databases.py:244-277: retrieve, called on the store directly
VdbRetrieve ==
    /\ add_pc = "idle"
    /\ vdb_ops < MaxOps
    /\ vdb_ops' = vdb_ops + 1
    /\ \E question \in Questions, k \in 1 .. MaxK, embedded \in BOOLEAN :
       \E r \in Retrieve(collection_ # NoCollection,
                         Docs(ActiveRows(vdb_db, collection_)), question, k) :
          IF collection_ = NoCollection
          THEN vdb_last' = Op("retrieve", <<>>,
                              "ValueError: No collection selected.",
                              collection_, NoCalls, "check")
          ELSE IF ~embedded
          THEN vdb_last' = Op("retrieve", <<>>, "embed error", collection_,
                              [NoCalls EXCEPT !.embed = 1], "embed")
          ELSE vdb_last' = Op("retrieve", <<>>,
                              IF r.raised THEN "chromadb error" ELSE "none",
                              collection_,
                              [NoCalls EXCEPT !.embed = 1, !.index = 1],
                              "query")
    /\ UNCHANGED <<client_, vdb_dbInitOk, collection_, vdb_db, vdb_uuids,
                   retrieval_only_, add_pc, addLocals, StoreConfig>>
    /\ StoreView
    /\ VdbFrame

----------------------------------------------------------------------------
(* SemanticChunker.chunk: chunkers.py:253-303 *)

\* chunkers.py:18
SAFETY_DIVISOR == 4
\* chunkers.py:21
DESIRED_CHUNK_TOKENS == 450

\* largest number of documents given to one chunk call that is explored
MaxTexts == 2

\* chunkers.py:272: max_tokens
MaxTokens(model) == OPENAI_TOKEN_LIMITS(model) \div SAFETY_DIVISOR

\* chunkers.py:247-250: the blocks of _split_text, by their token counts
RECURSIVE SplitText(_, _)
SplitText(tokens, max_tokens) ==
    IF tokens <= 0 THEN <<>>
    ELSE IF tokens <= max_tokens THEN <<tokens>>
    ELSE <<max_tokens>> \o SplitText(tokens - max_tokens, max_tokens)

\* chunkers.py:277-280: super_blocks of a document of the given token count
SuperBlocks(tokens, max_tokens) ==
    IF tokens > max_tokens THEN SplitText(tokens, max_tokens) ELSE <<tokens>>

\* Token counts of the documents explored: one that just fits a single block
\* and one that needs two.
DocumentTokens(model) == {MaxTokens(model), MaxTokens(model) + 1}

\* Token counts of the prompts the chunker sends: within the budget of the
\* model, or over it (count_tokens of the whole prompt, llms.py:223).
ChunkPromptTokens(model) == {0, OPENAI_TOKEN_LIMITS(model)}

\* The chunk lists a structured completion may hold (response.chunks), by
\* the token count of each chunk: no chunk, one chunk over the ceiling, or
\* one at the ceiling followed by one over it.
Responses ==
    {<<>>, <<DESIRED_CHUNK_TOKENS + 1>>,
     <<DESIRED_CHUNK_TOKENS, DESIRED_CHUNK_TOKENS + 1>>}

\* chunkers.py:293: count_tokens(chunk) > DESIRED_CHUNK_TOKENS
NeedsRefinement(tokens) == tokens > DESIRED_CHUNK_TOKENS

\* a mutant of the second pass: pieces still too long go back to the queue
AfterRefinement_Resubmit(pre, final, pieces) ==
    [pre_chunks   |-> pre \o SelectSeq(pieces, NeedsRefinement),
     final_chunks |-> final \o SelectSeq(pieces, LAMBDA p : ~NeedsRefinement(p))]

\* chunkers.py:296-297: the pieces of a refinement go to final_chunks as they
\* are; pre_chunks is not touched
AfterRefinement(pre, final, pieces) ==
    [pre_chunks |-> pre, final_chunks |-> final \o pieces]

\* a mutant of the completion: a failed request counts as an empty answer
ChunkCompletion_Swallowed(outcome, pieces) ==
    IF outcome = "ok" THEN [raised |-> FALSE, chunks |-> pieces]
    ELSE [raised |-> FALSE, chunks |-> <<>>]

\* chunkers.py:287-288, 296-297: response = llm_.structured_query(...) and
\* response.chunks; nothing catches an exception of the request
ChunkCompletion(outcome, pieces) ==
    IF outcome = "ok" THEN [raised |-> FALSE, chunks |-> pieces]
    ELSE [raised |-> TRUE, chunks |-> <<>>]

\* requests of the call: first-pass and refinement requests for the current
\* document, chunks the first pass returned for it, requests that failed and
\* requests made after a failure
NoRequests ==
    [first |-> 0, refine |-> 0, firstChunks |-> 0, failed |-> 0,
     afterFailure |-> 0]

\* one more request of the given pass, which returned n chunks or failed
Requested(calls, pass, ok, n) ==
    [first        |-> calls.first + (IF pass = 1 THEN 1 ELSE 0),
     refine       |-> calls.refine + (IF pass = 2 THEN 1 ELSE 0),
     firstChunks  |-> calls.firstChunks + (IF pass = 1 /\ ok THEN n ELSE 0),
     failed       |-> calls.failed + (IF ok THEN 0 ELSE 1),
     afterFailure |-> calls.afterFailure + (IF calls.failed > 0 THEN 1 ELSE 0)]

\* chunkers.py:275-283: the loop body begins for document number t + 1
ChBeginDocument(text, t) ==
    /\ super_blocks' = SuperBlocks(text[t + 1], MaxTokens(llm_model))
    /\ ch_block' = 0
    /\ pre_chunks' = <<>>
    /\ ch_chunk' = 0
    /\ final_chunks' = <<>>
    /\ ch_pc' = "first_pass"

\* chunkers.py:303 (return docs) or an exception, which returns nothing:
\* the call is over
ChEnd(result, docs) ==
    /\ ch_pc' = "done"
    /\ ch_result' = result
    /\ ch_docs' = docs
    /\ super_blocks' = <<>>
    /\ ch_block' = 0
    /\ pre_chunks' = <<>>
    /\ ch_chunk' = 0
    /\ final_chunks' = <<>>

\* chunkers.py:268-274: chunk is called with a list of documents
ChCall ==
    /\ ch_pc \in {"idle", "done"}
    /\ \E text \in UNION {[1 .. n -> DocumentTokens(llm_model)] :
                             n \in 0 .. MaxTexts} :
          /\ ch_text' = text
          /\ IF text = <<>>
             THEN ChEnd(Result("docs", "", 0), <<>>)
             ELSE /\ ChBeginDocument(text, 0)
                  /\ ch_result' = Pending
                  /\ ch_docs' = <<>>
    /\ ch_t' = 0
    /\ ch_calls' = NoRequests
    /\ LlmNewCall
    /\ ChunkFrame

\* chunkers.py:284-288: one super-block is sent for structured chunking
ChFirstPass ==
    /\ ch_pc = "first_pass"
    /\ \E t \in ChunkPromptTokens(llm_model), net \in NetOutcomes,
          pieces \in Responses :
          LET outcome == GatewayOutcome(llm_model, t, net)
              response == ChunkCompletion(outcome, pieces)
          IN /\ LlmInvoke("structured_query", t, net)
             /\ outcome # "ok" => pieces = <<>>
             /\ ch_calls' = Requested(ch_calls, 1, outcome = "ok", Len(pieces))
             /\ IF response.raised
                THEN ChEnd(Raised(GatewayError(outcome)), <<>>)
                ELSE /\ pre_chunks' = pre_chunks \o response.chunks
                     /\ ch_block' = ch_block + 1
                     /\ ch_pc' = IF ch_block + 1 < Len(super_blocks)
                                 THEN "first_pass" ELSE "refine"
                     /\ UNCHANGED <<super_blocks, ch_chunk, final_chunks,
                                    ch_result, ch_docs>>
    /\ UNCHANGED <<ch_text, ch_t>>
    /\ ChunkFrame

\* chunkers.py:292-299: the next chunk of pre_chunks is kept or refined
ChRefine ==
    /\ ch_pc = "refine"
    /\ ch_chunk < Len(pre_chunks)
    /\ LET chunk == pre_chunks[ch_chunk + 1] IN
       IF NeedsRefinement(chunk)
       THEN \E t \in ChunkPromptTokens(llm_model), net \in NetOutcomes,
               pieces \in Responses :
               LET outcome == GatewayOutcome(llm_model, t, net)
                   response == ChunkCompletion(outcome, pieces)
                   after == AfterRefinement(pre_chunks, final_chunks,
                                            response.chunks)
               IN /\ LlmInvoke("structured_query", t, net)
                  /\ outcome # "ok" => pieces = <<>>
                  /\ ch_calls' = Requested(ch_calls, 2, outcome = "ok",
                                           Len(pieces))
                  /\ IF response.raised
                     THEN ChEnd(Raised(GatewayError(outcome)), <<>>)
                     ELSE /\ pre_chunks' = after.pre_chunks
                          /\ final_chunks' = after.final_chunks
                          /\ ch_chunk' = ch_chunk + 1
                          /\ UNCHANGED <<ch_pc, super_blocks, ch_block,
                                         ch_result, ch_docs>>
       ELSE /\ final_chunks' = Append(final_chunks, chunk)
            /\ ch_chunk' = ch_chunk + 1
            /\ UNCHANGED <<ch_pc, super_blocks, ch_block, pre_chunks,
                           ch_result, ch_docs, ch_calls, llmVars>>
    /\ UNCHANGED <<ch_text, ch_t>>
    /\ ChunkFrame

\* chunkers.py:301-303: docs.append(final_chunks), then the next document or
\* return docs
ChNextDocument ==
    /\ ch_pc = "refine"
    /\ ch_chunk = Len(pre_chunks)
    /\ ch_t' = ch_t + 1
    /\ IF ch_t + 1 < Len(ch_text)
       THEN /\ ChBeginDocument(ch_text, ch_t + 1)
            /\ ch_docs' = Append(ch_docs, final_chunks)
            /\ ch_calls' = [ch_calls EXCEPT !.first = 0, !.refine = 0,
                                            !.firstChunks = 0]
            /\ UNCHANGED ch_result
       ELSE /\ ChEnd(Result("docs", "", Len(ch_text)),
                     Append(ch_docs, final_chunks))
            /\ UNCHANGED ch_calls
    /\ UNCHANGED <<ch_text, llmVars>>
    /\ ChunkFrame

----------------------------------------------------------------------------
(* ChromaAgent.query called from two threads on one instance:               *)
(* agents.py:160-216. The threads share self.docs_, self.distances_,        *)
(* self.prompt_ and self.response_; a thread switch can occur between any   *)
(* two reads or writes of these fields.                                     *)

\* the two callers (two chatbot sessions served by one process share the
\* agent built at agent_helpers.py:31)
Threads == {1, 2}

NoArgs == [question |-> "q1", k |-> 1, max_distance |-> 65]

RaceFields == UNCHANGED <<rag_pc, rag_question, rag_k, rag_max_distance,
                          rag_show_citations, rag_result, rag_retrieved,
                          rag_llmCalls>>

\* agents.py:160: a thread enters query
ThCall(t) ==
    /\ th_pc[t] = "idle"
    /\ \E question \in Questions, k \in 1 .. MaxK,
          max_distance \in MaxDistances :
          th_args' = [th_args EXCEPT ![t] =
             [question |-> question, k |-> k, max_distance |-> max_distance]]
    /\ th_pc' = [th_pc EXCEPT ![t] = "retrieve"]
    /\ UNCHANGED <<th_retrieved, th_mindist, th_context, th_result>>
    /\ UNCHANGED <<docs_, distances_, rag_prompt_, rag_response_, llmVars>>
    /\ RaceFields
    /\ RaceFrame

\* agents.py:179, right-hand side: self.vectordb_.retrieve(question, k)
ThRetrieve(t) ==
    /\ th_pc[t] = "retrieve"
    /\ \E r \in Retrieve(vdb_attached, vdb_rows, th_args[t].question,
                         th_args[t].k) :
          /\ th_retrieved' = [th_retrieved EXCEPT ![t] = r]
          /\ IF r.raised
             THEN /\ th_pc' = [th_pc EXCEPT ![t] = "done"]
                  /\ th_result' = [th_result EXCEPT ![t] =
                                      Raised("ValueError: retrieve")]
             ELSE /\ th_pc' = [th_pc EXCEPT ![t] = "store_docs"]
                  /\ UNCHANGED th_result
    /\ UNCHANGED <<th_args, th_mindist, th_context>>
    /\ UNCHANGED <<docs_, distances_, rag_prompt_, rag_response_, llmVars>>
    /\ RaceFields
    /\ RaceFrame

\* agents.py:179, left-hand side, first target: self.docs_ = ...
ThStoreDocs(t) ==
    /\ th_pc[t] = "store_docs"
    /\ docs_' = AssignTrace(th_retrieved[t], docs_, distances_, FALSE).docs_
    /\ th_pc' = [th_pc EXCEPT ![t] = "store_distances"]
    /\ UNCHANGED <<th_args, th_retrieved, th_mindist, th_context, th_result>>
    /\ UNCHANGED <<distances_, rag_prompt_, rag_response_, llmVars>>
    /\ RaceFields
    /\ RaceFrame

\* agents.py:179, left-hand side, second target: self.distances_ = ...
ThStoreDistances(t) ==
    /\ th_pc[t] = "store_distances"
    /\ distances_' =
          AssignTrace(th_retrieved[t], docs_, distances_, FALSE).distances_
    /\ th_pc' = [th_pc EXCEPT ![t] = "gate"]
    /\ UNCHANGED <<th_args, th_retrieved, th_mindist, th_context, th_result>>
    /\ UNCHANGED <<docs_, rag_prompt_, rag_response_, llmVars>>
    /\ RaceFields
    /\ RaceFrame

\* agents.py:188-197: mindist = min(self.distances_) and the confidence gate
ThGate(t) ==
    /\ th_pc[t] = "gate"
    /\ IF distances_ = <<>>
       THEN /\ th_pc' = [th_pc EXCEPT ![t] = "done"]
            /\ th_result' = [th_result EXCEPT ![t] =
                  Raised("ValueError: min() arg is an empty sequence")]
            /\ UNCHANGED th_mindist
       ELSE /\ th_mindist' = [th_mindist EXCEPT ![t] = Min(distances_)]
            /\ IF RagRefuses(Min(distances_), th_args[t].max_distance)
               THEN /\ th_pc' = [th_pc EXCEPT ![t] = "done"]
                    /\ th_result' = [th_result EXCEPT ![t] = Refusal]
               ELSE /\ th_pc' = [th_pc EXCEPT ![t] = "context"]
                    /\ UNCHANGED th_result
    /\ UNCHANGED <<th_args, th_retrieved, th_context>>
    /\ UNCHANGED <<docs_, distances_, rag_prompt_, rag_response_, llmVars>>
    /\ RaceFields
    /\ RaceFrame

\* agents.py:209-212: context_str from self.docs_, then self.prompt_
ThContext(t) ==
    /\ th_pc[t] = "context"
    /\ th_context' = [th_context EXCEPT ![t] =
          ContextStr(docs_, distances_, th_args[t].max_distance)]
    /\ rag_prompt_' = BuildPrompt(docs_, distances_, th_args[t].max_distance,
                                  th_args[t].question)
    /\ th_pc' = [th_pc EXCEPT ![t] = "complete"]
    /\ UNCHANGED <<th_args, th_retrieved, th_mindist, th_result>>
    /\ UNCHANGED <<docs_, distances_, rag_response_, llmVars>>
    /\ RaceFields
    /\ RaceFrame

\* agents.py:215-216: self.response_ = self.llm_.query(self.prompt_)
ThComplete(t) ==
    /\ th_pc[t] = "complete"
    /\ th_pc' = [th_pc EXCEPT ![t] = "done"]
    /\ \E tokens \in TokenInputs(llm_model), net \in NetOutcomes :
          /\ LlmInvoke("query", tokens, net)
          /\ IF GatewayOutcome(llm_model, tokens, net) = "ok"
             THEN \E text \in Completions :
                     /\ rag_response_' = text
                     /\ th_result' = [th_result EXCEPT ![t] =
                                         Result("answer", text, 0)]
             ELSE /\ th_result' = [th_result EXCEPT ![t] =
                        Raised(GatewayError(
                                  GatewayOutcome(llm_model, tokens, net)))]
                  /\ UNCHANGED rag_response_
    /\ UNCHANGED <<th_args, th_retrieved, th_mindist, th_context>>
    /\ UNCHANGED <<docs_, distances_, rag_prompt_>>
    /\ RaceFields
    /\ UNCHANGED <<sqlVars, vdbVars, maVars, chunkVars>>
    /\ UNCHANGED <<qraVars, initVars, xlVars, sqVars>>

----------------------------------------------------------------------------
(* SQLiteAgent.query called from two threads on one instance:               *)
(* agents.py:282-348. attempts and error_context are locals of each call;   *)
(* self.response_ is a field of the instance, written at lines 313/315 and  *)
(* read at lines 312, 321 and 330.                                          *)

\* values of the retries argument of the two calls
RaceRetries == {0, 1}

\* a thread outside query
NoSqlCall ==
    [pc |-> "idle", retries |-> 0, attempts |-> 0, generated |-> <<>>,
     quoted |-> "none", executed |-> "none", result |-> Pending]

\* the other fields of the instance and the locals of a direct call
SqRaceFields ==
    UNCHANGED <<sql_pc, sql_prompt, sql_retries, attempts, error_context,
                sql_answer, sql_result, summary, sql_genLog, sql_trace,
                schema_json_, sql_source, sql_attemptLog>>

\* agents.py:282-309: a thread enters query
SqCall(t) ==
    /\ sq_th[t].pc = "idle"
    /\ \E retries \in RaceRetries :
          sq_th' = [sq_th EXCEPT ![t] =
                       [NoSqlCall EXCEPT !.pc = "generate",
                                         !.retries = retries]]
    /\ UNCHANGED <<sql_response_, llmVars>>
    /\ SqRaceFields
    /\ SqFrame

\* agents.py:310-315: the request (a repair quotes self.response_.sql_query)
\* and the assignment of its result to self.response_
SqGenerate(t) ==
    /\ sq_th[t].pc = "generate"
    /\ \E net \in NetOutcomes :
          /\ LlmInvoke("structured_query", 0, net)
          /\ IF GatewayOutcome(llm_model, 0, net) = "ok"
             THEN \E q \in Queries :
                     /\ sql_response_' =
                           [sql_query |-> q, explanation |-> "why"]
                     /\ sq_th' = [sq_th EXCEPT
                           ![t].pc = "execute",
                           ![t].generated = Append(sq_th[t].generated, q),
                           ![t].quoted =
                              GenerationRequest(sq_th[t].attempts, "q1",
                                 sql_response_, "").prev_query]
             ELSE /\ sq_th' = [sq_th EXCEPT
                           ![t].pc = "done",
                           ![t].result = Raised(GatewayError(
                              GatewayOutcome(llm_model, 0, net)))]
                  /\ UNCHANGED sql_response_
    /\ SqRaceFields
    /\ SqFrame

\* agents.py:337-346 for a thread: return the failure or go round the loop
SqAfterRaise(t, executed, e) ==
    IF SqlExceptReturns(sq_th[t].attempts, sq_th[t].retries)
    THEN [sq_th EXCEPT ![t].pc = "done", ![t].executed = executed,
                       ![t].result = FailureMessage(sq_th[t].retries, e)]
    ELSE [sq_th EXCEPT ![t].pc = "generate", ![t].executed = executed,
                       ![t].attempts = sq_th[t].attempts + 1]

\* agents.py:321-324: pd.read_sql(self.response_.sql_query, self.engine_)
SqExecute(t) ==
    /\ sq_th[t].pc = "execute"
    /\ \/ \E e \in SqlErrors :
             sq_th' = SqAfterRaise(t, sql_response_.sql_query, e)
       \/ \E rows \in RowSets :
             sq_th' = [sq_th EXCEPT
                ![t].executed = sql_response_.sql_query,
                ![t].pc = SqlAfterRows(rows),
                ![t].result = IF SqlAfterRows(rows) = "done"
                              THEN NoResultsMessage ELSE Pending]
    /\ UNCHANGED <<sql_response_, llmVars>>
    /\ SqRaceFields
    /\ SqFrame

\* agents.py:326-335: the summarize completion of a thread
SqSummarize(t) ==
    /\ sq_th[t].pc = "summarize"
    /\ \E net \in NetOutcomes :
          /\ LlmInvoke("query", 0, net)
          /\ IF GatewayOutcome(llm_model, 0, net) = "ok"
             THEN \E text \in Completions :
                     sq_th' = [sq_th EXCEPT
                        ![t].pc = "done",
                        ![t].result = SummaryOrFallback(text)]
             ELSE sq_th' = SqAfterRaise(t, sq_th[t].executed,
                     GatewayError(GatewayOutcome(llm_model, 0, net)))
    /\ UNCHANGED sql_response_
    /\ SqRaceFields
    /\ SqFrame

----------------------------------------------------------------------------
(* Specifications *)

InitLlm ==
    /\ llm_model \in SupportedModels
    /\ llm_calls = 0
    /\ llm_sent = 0
    /\ llm_last = NoCall

InitSql ==
    /\ sql_pc = "idle"
    /\ sql_prompt = "q1"
    /\ sql_retries = 0
    /\ attempts = 0
    /\ error_context = ""
    /\ sql_response_ = NoResponse
    /\ sql_answer = "none"
    /\ sql_result = Pending
    /\ summary = "none"
    /\ sql_genLog = <<>>
    /\ sql_trace = <<>>
    /\ sql_source = [at_construction |-> "t1", now |-> "t1"]
    /\ schema_json_ = BuildSchema(sql_source.at_construction)
    /\ sql_attemptLog = <<>>

\* collections of at most MaxRows rows, no chunk stored twice
InitialCollections ==
    {rows \in UNION {[1 .. n -> Chunks] : n \in 0 .. MaxRows} :
        \A i, j \in DOMAIN rows : rows[i] = rows[j] => i = j}

\* add_to_collection is not running
InitAdd ==
    /\ add_pc = "idle"
    /\ add_documents = <<>>
    /\ add_i = 0
    /\ add_chunks = <<>>
    /\ add_idx = 0
    /\ add_rows0 = <<>>
    /\ add_produced = <<>>
    /\ add_calls = NoCalls

\* the store of the chatbot (agent_helpers.py:13-19): retrieval only,
\* initialized, attached to a collection that holds vdb_rows
StoreAttached ==
    /\ text_extractor_ = "None"
    /\ chunker_ = "None"
    /\ distance_measure_ = "cosine"
    /\ retrieval_only_ = RetrievalOnly("None", "None", "cosine")
    /\ client_ = TRUE
    /\ vdb_dbInitOk = TRUE
    /\ collection_ = <<"d", "b">>
    /\ vdb_db = [n \in {<<"d", "b">>} |->
                    [i \in DOMAIN vdb_rows |-> Row(i, vdb_rows[i])]]
    /\ vdb_db0 = vdb_db
    /\ vdb_uuids = Len(vdb_rows)
    /\ vdb_ops = 0
    /\ vdb_last = NoOp
    /\ InitAdd

\* a store with an attached collection (ChromaAgent.__init__ accepts no other)
InitVdb ==
    /\ vdb_attached = TRUE
    /\ vdb_rows \in InitialCollections
    /\ StoreAttached

\* the databases found at dbpath_: none yet, or one with a collection
InitialDatabases ==
    {<<>>, [n \in {<<"d", "b">>} |-> <<Row(1, "c1")>>]}

\* vector_databases.py:133-150: a store just constructed, with or without a
\* text extractor, a chunker and a distance measure
InitStore ==
    /\ text_extractor_ \in {"set", "None"}
    /\ chunker_ \in {"set", "None"}
    /\ distance_measure_ \in {"cosine", "None"}
    /\ retrieval_only_ =
          RetrievalOnly(text_extractor_, chunker_, distance_measure_)
    /\ client_ = FALSE
    /\ vdb_dbInitOk = FALSE
    /\ collection_ = NoCollection
    /\ vdb_db \in InitialDatabases
    /\ vdb_db0 = vdb_db
    /\ vdb_uuids = 1
    /\ vdb_ops = 0
    /\ vdb_last = NoOp
    /\ vdb_attached = FALSE
    /\ vdb_rows = <<>>
    /\ InitAdd

InitRag ==
    /\ rag_pc = "idle"
    /\ rag_question = "q1"
    /\ rag_k = 0
    /\ rag_max_distance = 65
    /\ rag_show_citations = FALSE
    /\ docs_ = <<>>
    /\ distances_ = <<>>
    /\ rag_prompt_ = NoPrompt
    /\ rag_response_ = "unset"
    /\ rag_result = Pending
    /\ rag_retrieved = RetrieveRaised
    /\ rag_llmCalls = 0

\* one collection, for the specifications that do not retrieve
InitVdbFixed ==
    /\ vdb_attached = TRUE
    /\ vdb_rows = <<"c1", "c2">>
    /\ StoreAttached

\* SemanticChunker.chunk is not running
InitChunk ==
    /\ ch_pc = "idle"
    /\ ch_text = <<>>
    /\ ch_t = 0
    /\ super_blocks = <<>>
    /\ ch_block = 0
    /\ pre_chunks = <<>>
    /\ ch_chunk = 0
    /\ final_chunks = <<>>
    /\ ch_docs = <<>>
    /\ ch_result = Pending
    /\ ch_calls = NoRequests

\* no thread is inside ChromaAgent.query
InitRace ==
    /\ th_pc = [t \in Threads |-> "idle"]
    /\ th_args = [t \in Threads |-> NoArgs]
    /\ th_retrieved = [t \in Threads |-> RetrieveRaised]
    /\ th_mindist = [t \in Threads |-> 0]
    /\ th_context = [t \in Threads |-> <<>>]
    /\ th_result = [t \in Threads |-> Pending]

InitMa ==
    /\ agents_ \in AgentLists
    /\ ma_pc = "idle"
    /\ ma_question = "q1"
    /\ ma_response = NoConductorResponse
    /\ last_agent_ = "unset"
    /\ last_agent_name_ = "unset"
    /\ ma_result = Pending
    /\ ma_classifyCalls = 0
    /\ ma_forwardLog = <<>>

\* one configuration, for the specifications that do not route
InitMaFixed == InitMa /\ agents_ = <<"rag", "sql">>

\* no backend and no MultiAgent has been constructed yet
InitMi ==
    /\ mi_pc = "agents"
    /\ mi_agents = <<>>
    /\ mi_descs = <<>>
    /\ agent_types_ = <<>>
    /\ ma_prompt_ = <<>>

\* no workbook has been materialized; temp.db does not exist
InitXl ==
    /\ xl_pc = "idle"
    /\ xl_sheets = <<>>
    /\ xl_i = 0
    /\ xl_tables = NoTables

\* no thread is inside SQLiteAgent.query
InitSq == sq_th = [t \in Threads |-> NoSqlCall]

\* nobody is inside query_race_agent
InitQra ==
    /\ qra_pc = "idle"
    /\ qra_out = NoOutcome

InitOthers == InitChunk /\ InitRace /\ InitQra /\ InitMi /\ InitXl /\ InitSq

Init ==
    InitLlm /\ InitSql /\ InitVdbFixed /\ InitRag /\ InitMaFixed /\ InitOthers

\* the gateway called directly
NextLlm == LlmQuery \/ LlmStructuredQuery
SpecLlm == Init /\ [][NextLlm]_vars

\* SQLiteAgent.query called directly
NextSql == SqlCall \/ SqlGenerate \/ SqlExecute \/ SqlSummarize
SpecSql == Init /\ [][NextSql]_vars

\* the same, while the database changes shape under the agent
InitOneModel == Init /\ llm_model = "gpt-4o-mini"
NextSqlSchema == NextSql \/ SqlSourceChanges
SpecSqlSchema == InitOneModel /\ [][NextSqlSchema]_vars

\* ExcelAgent is constructed over one workbook after another
NextXl == XlOpen \/ XlUpload \/ XlFinish
SpecXl == InitOneModel /\ [][NextXl]_vars

\* two threads, each calling SQLiteAgent.query once on the same instance
NextSqRace ==
    \E t \in Threads :
       SqCall(t) \/ SqGenerate(t) \/ SqExecute(t) \/ SqSummarize(t)
SpecSqRace == InitOneModel /\ [][NextSqRace]_vars

\* backends are constructed, then a MultiAgent over them
NextMi == MiConstructAgent \/ MiInit \/ MiDescribe
SpecMi == InitOneModel /\ [][NextMi]_vars

\* ChromaAgent.query called directly, over any of the initial collections
InitRagSpec ==
    InitLlm /\ InitSql /\ InitVdb /\ InitRag /\ InitMaFixed /\ InitOthers
NextRag == RagCall \/ RagRetrieve \/ RagGate \/ RagComplete
SpecRag == InitRagSpec /\ [][NextRag]_vars

\* MultiAgent.query over its backends, with the default model (llms.py:27-30)
InitMaSpec ==
    /\ InitLlm /\ llm_model = "gpt-4o-mini"
    /\ InitSql /\ InitVdbFixed /\ InitRag /\ InitMa /\ InitOthers
NextMa ==
    \/ MaCall \/ MaClassify \/ MaReturn
    \/ RagRetrieve \/ RagGate \/ RagComplete
    \/ SqlGenerate \/ SqlExecute \/ SqlSummarize
SpecMa == InitMaSpec /\ [][NextMa]_vars

\* the chatbot page: every question goes through query_race_agent
NextQra == QraCall \/ QraStep \/ QraReturn
SpecQra == InitMaSpec /\ [][NextQra]_vars

\* the operations of ChromaDBVectorDB called one after the other on a store
\* just constructed
InitVdbSpec ==
    /\ InitLlm /\ llm_model = "gpt-4o-mini"
    /\ InitSql /\ InitStore /\ InitRag /\ InitMaFixed /\ InitOthers
NextVdb ==
    \/ VdbInitializeDb \/ VdbInitializeCollection \/ VdbRetrieve
    \/ AddCall \/ AddChunk \/ AddEmbed \/ AddAppend
SpecVdb == InitVdbSpec /\ [][NextVdb]_vars

\* SemanticChunker.chunk called directly, with the default model
\* (llms.py:27-30)
InitChunkSpec ==
    /\ InitLlm /\ llm_model = "gpt-4o-mini"
    /\ InitSql /\ InitVdbFixed /\ InitRag /\ InitMaFixed /\ InitOthers
NextChunk == ChCall \/ ChFirstPass \/ ChRefine \/ ChNextDocument
SpecChunk == InitChunkSpec /\ [][NextChunk]_vars

\* two threads, each calling ChromaAgent.query once on the same instance
InitRaceSpec ==
    /\ InitLlm /\ llm_model = "gpt-4o-mini"
    /\ InitSql /\ InitVdbFixed /\ InitRag /\ InitMaFixed /\ InitOthers
NextRace ==
    \E t \in Threads :
       \/ ThCall(t) \/ ThRetrieve(t) \/ ThStoreDocs(t) \/ ThStoreDistances(t)
       \/ ThGate(t) \/ ThContext(t) \/ ThComplete(t)
SpecRace == InitRaceSpec /\ [][NextRace]_vars

\* the same, where a call that has begun keeps running: every request to the
\* gateway returns or raises, and the loops then take their next step
SpecChunkFair ==
    SpecChunk /\ WF_vars(ChFirstPass \/ ChRefine \/ ChNextDocument)

----------------------------------------------------------------------------
(* Properties of SQLiteAgent.query *)

\* number of entries of seq that are in the set S
Count(seq, S) == Cardinality({i \in DOMAIN seq : seq[i] \in S})

ExecOutcomes == {"raised", "empty", "rows"}

\* the outcomes of this call's executions, in order
Executions(tr) == SelectSeq(tr, LAMBDA x : x \in ExecOutcomes)

\* the call ended on an execution that raised, as did every execution before
EveryExecutionRaised ==
    /\ sql_trace # <<>>
    /\ sql_trace[Len(sql_trace)] = "raised"
    /\ \A i \in DOMAIN sql_trace : sql_trace[i] \notin {"empty", "rows"}

FailedThenRows(ex) ==
    /\ Len(ex) >= 2
    /\ ex[Len(ex)] = "rows"
    /\ \A i \in 1 .. Len(ex) - 1 : ex[i] = "raised"

\* the trace Generate, Execute, ..., Generate, Execute of a call
Alternates(tr) ==
    /\ Len(tr) % 2 = 0
    /\ \A i \in DOMAIN tr :
          IF i % 2 = 1 THEN tr[i] = "gen" ELSE tr[i] \in ExecOutcomes

\* C2: when the first k executions raise (1 <= k <= retries) and execution
\* k+1 returns rows, the call has issued exactly k+1 generation requests (one
\* before each execution) when it issues its one summarize completion, and it
\* returns that completion's text (the fallback string standing in for an
\* empty text).
C2_RepairThenSummary ==
    /\ (sql_pc = "summarize" /\ FailedThenRows(Executions(sql_trace)))
        => /\ Count(sql_trace, {"raised"}) <= sql_retries
           /\ Count(sql_trace, {"gen"}) = Count(sql_trace, {"raised"}) + 1
           /\ Alternates(sql_trace)
    /\ (sql_pc = "done" /\ FailedThenRows(Executions(sql_trace))
          /\ llm_last.method = "query" /\ llm_last.outcome = "ok")
        => /\ Count(sql_trace, {"raised"}) <= sql_retries
           /\ Count(sql_trace, {"gen"}) = Count(sql_trace, {"raised"}) + 1
           /\ Len(sql_genLog) = Count(sql_trace, {"raised"}) + 1
           /\ Count(sql_trace, {"sum"}) = 1
           /\ sql_trace[Len(sql_trace)] = "sum"
           /\ Alternates(SubSeq(sql_trace, 1, Len(sql_trace) - 1))
           /\ sql_result.kind = (IF summary = "" THEN "fallback" ELSE "answer")
           /\ sql_result.text = summary

\* retries = 1, one failure, one repair, a summarized answer
C2_Witness ==
    /\ sql_pc = "done"
    /\ sql_retries = 1
    /\ sql_trace = <<"gen", "raised", "gen", "rows", "sum">>
    /\ sql_result.kind = "answer"

\* C8: SQLiteAgent.query always ends by returning a string; no exception
\* leaves the call, whatever the gateway and the data source do.
C8_NeverRaises ==
    sql_pc = "done" => sql_result.kind # "raised"

\* C9: the failure message is returned only after retries+1 generations, and
\* an execution that raises after fewer generations is followed by a Repair
\* generation and, once that generation has answered, by another execution.
C9_FailureOnlyWhenExhausted ==
    /\ [](sql_result.kind = "failed"
            => Count(sql_trace, {"gen"}) = sql_retries + 1)
    /\ [][(/\ sql_pc = "execute"
           /\ sql_trace' = Append(sql_trace, "raised")
           /\ Count(sql_trace, {"gen"}) < sql_retries + 1)
            => (/\ sql_pc' = "generate"
                /\ attempts' = attempts + 1
                /\ sql_result' = Pending)]_vars
    /\ [][(/\ sql_pc = "generate"
           /\ attempts > 0
           /\ sql_trace' = Append(sql_trace, "gen"))
            => (/\ sql_genLog'[Len(sql_genLog')].kind = "repair"
                /\ (llm_last'.outcome = "ok" => sql_pc' = "execute"))]_vars

\* a failure was repaired: the call is about to execute a repaired query
C9_Witness ==
    /\ sql_pc = "execute"
    /\ attempts = 1
    /\ sql_trace = <<"gen", "raised", "gen">>
    /\ sql_retries = MaxRetries

\* C10: an execution that succeeds with an empty result ends the call with the
\* fixed no-results message on any attempt; nothing follows it (no summarize,
\* no generation) and it does not count as a failed attempt.
C10_EmptyResultIsTerminal ==
    /\ [](\A i \in DOMAIN sql_trace :
            sql_trace[i] = "empty"
                => /\ i = Len(sql_trace)
                   /\ sql_pc = "done"
                   /\ sql_result = NoResultsMessage)
    /\ [][(sql_pc = "execute" /\ sql_trace' = Append(sql_trace, "empty"))
            => (/\ attempts' = attempts
                /\ error_context' = error_context
                /\ sql_genLog' = sql_genLog
                /\ llm_calls' = llm_calls)]_vars

\* an empty result on a repaired query
C10_Witness ==
    /\ sql_pc = "done"
    /\ sql_trace = <<"gen", "raised", "gen", "empty">>
    /\ sql_result = NoResultsMessage

----------------------------------------------------------------------------
(* Properties of ChromaAgent.query *)

\* C3: whenever every distance retrieved by the call is greater than
\* max_distance, the call returns the refusal value and issues no completion
\* request to the gateway.
C3_RefusalWhenAllFar ==
    (/\ rag_pc = "done"
     /\ ~rag_retrieved.raised
     /\ \A i \in DOMAIN rag_retrieved.distances :
           rag_retrieved.distances[i] > rag_max_distance)
        => /\ rag_result = Refusal
           /\ rag_llmCalls = 0
           /\ llm_calls = 0

\* the part of C3 that the code satisfies: at least one chunk was retrieved
\* and the nearest one is farther than max_distance
C3_RefusalWhenNearestIsFar ==
    (/\ rag_pc = "done"
     /\ ~rag_retrieved.raised
     /\ rag_retrieved.distances # <<>>
     /\ Min(rag_retrieved.distances) > rag_max_distance)
        => /\ rag_result = Refusal
           /\ rag_llmCalls = 0
           /\ llm_calls = 0

\* the retrieval of this call found a chunk within max_distance
NearestIsNear ==
    /\ ~rag_retrieved.raised
    /\ rag_retrieved.distances # <<>>
    /\ Min(rag_retrieved.distances) <= rag_max_distance

\* the prompt holds every retrieved chunk, in retrieval order, and the question
PromptHoldsAllRetrieved ==
    /\ Len(rag_prompt_.context) = Len(rag_retrieved.docs)
    /\ \A i \in DOMAIN rag_retrieved.docs :
          rag_prompt_.context[i] = <<"- ", rag_retrieved.docs[i]>>
    /\ rag_prompt_.question = rag_question

\* C4: whenever the nearest retrieved distance is at most max_distance (the
\* boundary included), the call issues exactly one free-text completion, whose
\* prompt holds every retrieved chunk in retrieval order followed by the
\* question, and returns the text of that completion.
C4_AnswerFromAllChunks ==
    /\ (rag_pc = "gate" /\ NearestIsNear) => rag_llmCalls = 0
    /\ (rag_pc = "complete" /\ NearestIsNear)
        => /\ rag_llmCalls = 0
           /\ llm_calls = 0
           /\ PromptHoldsAllRetrieved
    /\ (rag_pc = "done" /\ NearestIsNear)
        => /\ rag_llmCalls = 1
           /\ llm_calls = 1
           /\ llm_last.method = "query"
           /\ PromptHoldsAllRetrieved
           /\ llm_last.outcome = "ok"
                => rag_result = Result("answer", rag_response_, 0)

\* the nearest chunk is at the threshold and the other one beyond it: both
\* are in the prompt of the one completion
C4_Witness ==
    /\ rag_pc = "done"
    /\ rag_max_distance = 65
    /\ rag_retrieved.distances = <<65, 90>>
    /\ Len(rag_prompt_.context) = 2
    /\ rag_llmCalls = 1
    /\ rag_result.kind = "answer"

----------------------------------------------------------------------------
(* Properties of MultiAgent.query *)

\* position, in agents_, of the agent that the integer i denotes
DenotedPosition(i) == IF i >= 0 THEN i + 1 ELSE Len(agents_) + i + 1

\* the classifier answered with an integer that denotes an agent
ClassifierChoseAnAgent ==
    /\ ma_response.answered
    /\ DenotedPosition(ma_response.agent_integer) \in DOMAIN agents_

\* the backend `agent` was called by this call with the question and kwargs
BackendCalledWith(agent, question, kwargs) ==
    IF agent = "rag"
    THEN /\ rag_pc # "idle"
         /\ rag_question = question
         /\ rag_k = kwargs.k
         /\ rag_max_distance = kwargs.max_distance
         /\ rag_show_citations = kwargs.show_citations
    ELSE /\ sql_pc # "idle"
         /\ sql_prompt = question
         /\ sql_retries = kwargs.retries

\* the backend `agent` was not called by this call
BackendNotCalled(agent) ==
    IF agent = "rag" THEN rag_pc = "idle" ELSE sql_pc = "idle" /\ sql_trace = <<>>

\* C5: a call issues exactly one classification request, then forwards the
\* original question to exactly one backend, the agent at the index the
\* classifier returned, with the default options configured at that index,
\* and records that agent and its name; no other backend is called.
C5_RoutesToTheChosenAgent ==
    /\ ma_pc = "classify" => (ma_classifyCalls = 0 /\ ma_forwardLog = <<>>)
    /\ ma_pc \in {"forward", "done"} => ma_classifyCalls = 1
    /\ Len(ma_forwardLog) <= 1
    /\ (ma_pc \in {"forward", "done"} /\ ClassifierChoseAnAgent)
        => LET pos == DenotedPosition(ma_response.agent_integer) IN
           /\ ma_forwardLog = <<[agent    |-> agents_[pos],
                                 question |-> ma_question,
                                 kwargs   |-> agent_query_kwargs_[pos]]>>
           /\ BackendCalledWith(agents_[pos], ma_question,
                                agent_query_kwargs_[pos])
           /\ last_agent_ = agents_[pos]
           /\ last_agent_name_ = agent_names_[pos]
           /\ \A other \in {"rag", "sql"} \ {agents_[pos]} :
                 BackendNotCalled(other)

\* the classifier returned 1 with two agents configured: the second one ran
C5_Witness ==
    /\ ma_pc = "done"
    /\ Len(agents_) = 2
    /\ ma_response.answered
    /\ ma_response.agent_integer = 1
    /\ Len(ma_forwardLog) = 1
    /\ ma_forwardLog[1].agent = agents_[2]
    /\ ma_result.kind \in {"answer", "refusal", "no_results", "failed", "fallback"}

\* C6: when the classifier returns an index outside 0 .. n-1 (a negative one
\* included), the call forwards to no backend chosen by indexing with that
\* value: it ends with a routing error (the model has no default agent).
C6_OutOfRangeIsNotForwarded ==
    (/\ ma_pc \in {"forward", "done"}
     /\ ma_response.answered
     /\ ma_response.agent_integer \notin 0 .. Len(agents_) - 1)
        => /\ ma_forwardLog = <<>>
           /\ ma_pc = "done"
           /\ ma_result.kind = "raised"

----------------------------------------------------------------------------
(* Properties of OpenAILLM *)

\* C7: for query and for structured_query alike, an invocation whose token
\* count plus the safety margin (1000) exceeds the model's limit raises the
\* over-budget error and sends nothing to the hosted model; any other
\* invocation sends its request. The check precedes the request every time.
C7_BudgetCheckBeforeRequest ==
    /\ [](llm_last.method # "none"
            => /\ llm_last.method \in {"query", "structured_query"}
               /\ (llm_last.tokens + 1000 > OPENAI_TOKEN_LIMITS(llm_model))
                    <=> (llm_last.outcome = "over_budget")
               /\ llm_last.sent
                    <=> (llm_last.tokens + 1000 <= OPENAI_TOKEN_LIMITS(llm_model)))
    /\ [][llm_calls' = llm_calls + 1
            => llm_sent' = (IF llm_last'.tokens + 1000
                                   > OPENAI_TOKEN_LIMITS(llm_model)
                            THEN llm_sent ELSE llm_sent + 1)]_vars

\* both methods have refused a prompt over the budget and sent one within it
C7_Witness ==
    /\ llm_calls = 3
    /\ llm_sent = 1
    /\ llm_last.method = "structured_query"
    /\ llm_last.outcome = "over_budget"
    /\ llm_last.tokens = OPENAI_TOKEN_LIMITS(llm_model) - 1000 + 1

----------------------------------------------------------------------------
(* Properties of ChromaDBVectorDB *)

\* the chunks of a list of chunk lists, in order
RECURSIVE Flatten(_)
Flatten(lists) ==
    IF lists = <<>> THEN <<>> ELSE Head(lists) \o Flatten(Tail(lists))

IsPrefix(a, b) == Len(a) <= Len(b) /\ SubSeq(b, 1, Len(a)) = a

AddReturned ==
    /\ add_pc = "idle"
    /\ vdb_last.op = "add_to_collection"
    /\ ~vdb_last.raised

AddRaisedInLoop ==
    /\ add_pc = "idle"
    /\ vdb_last.op = "add_to_collection"
    /\ vdb_last.raised
    /\ vdb_last.stage \in {"chunk", "embed", "append"}

\* no two rows of the database have the same identifier
IdsDistinct ==
    \A c1 \in DOMAIN vdb_db, c2 \in DOMAIN vdb_db :
       \A i \in DOMAIN vdb_db[c1], j \in DOMAIN vdb_db[c2] :
          vdb_db[c1][i].id = vdb_db[c2][j].id => c1 = c2 /\ i = j

\* C12: when an add_to_collection call returns, the active collection holds
\* the rows it held when the call began, unmodified, followed by exactly one
\* row per chunk the chunker returned to the call, in order (so a document
\* ingested again gets a second set of rows); the identifiers of all rows are
\* pairwise distinct; and no step of any operation removes or alters a row
\* that is already stored.
C12_AddAppendsOneRowPerChunk ==
    /\ [](AddReturned =>
            /\ IsPrefix(add_rows0, vdb_db[collection_])
            /\ Docs(vdb_db[collection_]) =
                  Docs(add_rows0) \o Flatten(add_produced))
    /\ []IdsDistinct
    /\ [][\A c \in DOMAIN vdb_db :
             c \in DOMAIN vdb_db' /\ IsPrefix(vdb_db[c], vdb_db'[c])]_vars

\* C12 witness: a collection created empty has been given the same chunks by
\* two calls and holds both sets of rows
C12_Witness ==
    /\ AddReturned
    /\ collection_ \notin DOMAIN vdb_db0
    /\ add_rows0 # <<>>
    /\ Docs(add_rows0) = Flatten(add_produced)
    /\ Len(vdb_db[collection_]) = 2 * Len(add_rows0)

\* C13: when add_to_collection raises while chunking or embedding document i
\* or while appending chunk j of document i, the active collection holds what
\* it held when the call began, then every chunk of the documents before i,
\* then chunks 0..j-1 of document i; the chunker was called for documents
\* 0..i only, and the call is over.
C13_PartialRowsStayCommitted ==
    AddRaisedInLoop =>
       LET before == SubSeq(add_produced, 1, add_i)
           current == IF vdb_last.stage = "append"
                      THEN SubSeq(add_chunks, 1, add_idx) ELSE <<>>
       IN /\ IsPrefix(add_rows0, vdb_db[collection_])
          /\ Docs(vdb_db[collection_]) =
                Docs(add_rows0) \o Flatten(before) \o current
          /\ vdb_last.calls.chunk = add_i + 1
          /\ vdb_last.calls.chunk <= Len(add_documents)

\* C13 witness: the call raised while appending the second chunk of its
\* second document
C13_Witness ==
    /\ AddRaisedInLoop
    /\ vdb_last.stage = "append"
    /\ add_i = 1
    /\ add_idx = 1
    /\ Len(vdb_db[collection_]) > Len(add_rows0) + 1

ConstructedWithoutACapability ==
    text_extractor_ = "None" \/ chunker_ = "None" \/ distance_measure_ = "None"

\* C14: on a store constructed without a text extractor, a chunker or a
\* distance measure, every add_to_collection call raises the retrieval-only
\* error at its first check, having called neither the extractor, the chunker
\* nor the embedder, and every collection holds the rows it held at
\* construction; retrieval_only_ never changes.
C14_RetrievalOnlyStoreRejectsAdd ==
    /\ [](ConstructedWithoutACapability =>
            /\ add_pc = "idle"
            /\ vdb_last.op = "add_to_collection" =>
                  /\ vdb_last.error =
                        "ValueError: Vector database is in retrieval only mode."
                  /\ vdb_last.calls = NoCalls
            /\ \A c \in DOMAIN vdb_db :
                  vdb_db[c] = IF c \in DOMAIN vdb_db0 THEN vdb_db0[c] ELSE <<>>)
    /\ [][retrieval_only_' = retrieval_only_]_vars

\* C14 witness: a store with an extractor and a chunker but no distance
\* measure, attached to a collection, has refused an add
C14_Witness ==
    /\ text_extractor_ = "set"
    /\ chunker_ = "set"
    /\ distance_measure_ = "None"
    /\ collection_ # NoCollection
    /\ vdb_last.op = "add_to_collection"
    /\ vdb_last.raised

\* str.isspace: the whitespace characters that occur in the names explored
HasWhitespace(name) == \E i \in DOMAIN name : name[i] \in {" ", "\t", "\n"}

\* C15: an initialize_collection call whose name contains a whitespace
\* character raises and leaves self.collection_ as it was.
C15_WhitespaceNameIsRejected ==
    (vdb_last.op = "initialize_collection" /\ HasWhitespace(vdb_last.name)) =>
       /\ vdb_last.raised
       /\ collection_ = vdb_last.before

\* C16: a collection is active only when an initialize_db call has returned
\* and a later initialize_collection call has returned (it is the only step
\* that changes self.collection_); initialize_collection called before any
\* initialize_db has returned raises and no collection is active; retrieve
\* called with no active collection raises without calling the embedder or
\* the index.
C16_ActiveOnlyAfterBothInitializations ==
    /\ [](collection_ # NoCollection => client_ /\ vdb_dbInitOk)
    /\ [][collection_' # collection_ =>
             /\ vdb_dbInitOk
             /\ vdb_last'.op = "initialize_collection"
             /\ ~vdb_last'.raised
             /\ collection_' = vdb_last'.name]_vars
    /\ []((vdb_last.op = "initialize_collection" /\ ~vdb_dbInitOk) =>
             vdb_last.raised /\ collection_ = NoCollection)
    /\ []((vdb_last.op = "retrieve" /\ vdb_last.before = NoCollection) =>
             /\ vdb_last.raised
             /\ vdb_last.calls.embed = 0
             /\ vdb_last.calls.index = 0)

\* C16 witness: after a first initialize_collection was refused, the database
\* was initialized and a collection attached
C16_Witness ==
    /\ vdb_ops >= 3
    /\ vdb_dbInitOk
    /\ vdb_last.op = "initialize_collection"
    /\ ~vdb_last.raised
    /\ vdb_last.before = NoCollection
    /\ collection_ = vdb_last.name

----------------------------------------------------------------------------
(* Properties of SemanticChunker.chunk *)

ChunkReturned == ch_pc = "done" /\ ch_result.kind = "docs"
ChunkRaised == ch_pc = "done" /\ ch_result.kind = "raised"
ChunkRunning == ch_pc \in {"first_pass", "refine"}

\* C18: every chunk of every list that chunk returns has at most
\* DESIRED_CHUNK_TOKENS (450) tokens.
C18_NoChunkOverTheCeiling ==
    ChunkReturned =>
       \A d \in DOMAIN ch_docs : \A c \in DOMAIN ch_docs[d] :
          ch_docs[d][c] <= 450

\* the super-blocks of the document the call is working on (of the last one
\* when the call has returned)
BlocksOfCurrentDocument ==
    Len(SuperBlocks(ch_text[IF ch_t < Len(ch_text) THEN ch_t + 1 ELSE ch_t],
                    MaxTokens(llm_model)))

\* C19: for each document chunk sends at most one request per super-block
\* (exactly one when the document is finished) and at most one refinement
\* request per chunk the first pass returned; the refinement pass walks
\* pre_chunks once and adds nothing to it, so no piece of a refinement is
\* sent again; and every call that has begun ends, whatever the gateway
\* answers.
C19_BoundedRequestsAndTermination ==
    /\ [](ch_text # <<>> /\ ch_pc # "idle" =>
            /\ ch_calls.first <= BlocksOfCurrentDocument
            /\ ch_calls.refine <= ch_calls.firstChunks
            /\ ch_calls.refine <= ch_chunk \/ ch_pc = "done"
            /\ (ch_pc = "refine" \/ ChunkReturned) =>
                  ch_calls.first = BlocksOfCurrentDocument)
    /\ [][ch_pc = "refine" /\ ch_pc' = "refine" =>
             /\ pre_chunks' = pre_chunks
             /\ ch_chunk' = ch_chunk + 1]_vars
    /\ (ChunkRunning ~> ch_pc = "done")

\* C19 witness: a document of two super-blocks whose first-pass chunks were
\* both too long has been finished with four requests
C19_Witness ==
    /\ ChunkReturned
    /\ ch_calls.first = 2
    /\ ch_calls.refine = 2
    /\ ch_calls.firstChunks = 2

\* C20: a structured completion that fails ends the call with its exception:
\* the call has raised, it returns no chunk list, the failed request is the
\* only one that failed and no request was made after it.
C20_CompletionFailurePropagates ==
    /\ [](ch_calls.failed > 0 =>
            /\ ChunkRaised
            /\ ch_docs = <<>>
            /\ ch_calls.failed = 1
            /\ ch_calls.afterFailure = 0)
    /\ [][ch_calls'.failed > ch_calls.failed =>
             /\ ch_pc' = "done"
             /\ ch_result' = Raised(GatewayError(llm_last'.outcome))]_vars

\* C20 witness: the refinement request for a chunk of the second document
\* failed
C20_Witness ==
    /\ ChunkRaised
    /\ ch_t = 1
    /\ ch_calls.failed = 1
    /\ ch_calls.refine >= 1
    /\ llm_last.outcome \in {"api_error", "over_budget"}

----------------------------------------------------------------------------
(* Properties of the trace side channel and of concurrent queries *)

\* C17: once the retrieval of the most recent ChromaAgent.query call has
\* returned, docs_ and distances_ hold what it returned, which is the k rows
\* nearest to the question of that call, nearest first, with their
\* distances; this holds when the call goes on to answer, to refuse or to
\* raise, and for either value of show_citations.
C17_TraceIsTheLastRetrieval ==
    (rag_pc \in {"gate", "complete", "done"} /\ ~rag_retrieved.raised) =>
       /\ docs_ = rag_retrieved.docs
       /\ distances_ = rag_retrieved.distances
       /\ rag_retrieved = IndexQuery(vdb_rows, rag_question, rag_k)

\* C17 witness: a call without citations has refused after a retrieval that
\* returned two chunks, and the trace holds them
C17_Witness ==
    /\ rag_pc = "done"
    /\ rag_result = Refusal
    /\ ~rag_show_citations
    /\ Len(docs_) = 2
    /\ docs_ = rag_retrieved.docs

\* the thread is past the confidence gate of its call
PastGate(t) ==
    /\ ~th_retrieved[t].raised
    /\ th_retrieved[t].distances # <<>>
    /\ \/ th_pc[t] \in {"context", "complete"}
       \/ th_pc[t] = "done"

\* C11: with two threads inside query on one instance, each call's refusal
\* decision is the one its own retrieved distances give (it refuses exactly
\* when the least of them exceeds its max_distance), and the context of its
\* prompt is built from its own retrieved chunks.
C11_EachCallUsesItsOwnRetrieval ==
    \A t \in Threads :
       PastGate(t) =>
          LET own == th_retrieved[t] IN
          /\ (th_pc[t] = "done" /\ th_result[t] = Refusal)
                <=> RagRefuses(Min(own.distances), th_args[t].max_distance)
          /\ th_result[t].kind # "raised" \/ th_pc[t] # "done"
                \/ th_mindist[t] = Min(own.distances)
          /\ th_pc[t] \in {"complete", "done"} /\ th_result[t] # Refusal
                /\ th_mindist[t] = Min(own.distances)
                => th_context[t] = ContextStr(own.docs, own.distances,
                                              th_args[t].max_distance)

----------------------------------------------------------------------------
(* Further properties of SQLiteAgent.query *)

\* C25: once an execution of the call has returned rows, the only thing the
\* call still does is one summarize completion, and it returns that
\* completion's text or the fallback string: no generation and no execution
\* follows the rows, whatever the summarize completion does.
C25_SummarizeEndsTheCall ==
    \A i \in DOMAIN sql_trace :
       sql_trace[i] = "rows" =>
          /\ Len(sql_trace) <= i + 1
          /\ Len(sql_trace) = i + 1 => sql_trace[i + 1] = "sum"
          /\ sql_pc = "done" => sql_result.kind \in {"answer", "fallback"}

\* C26: the first request of a call is a plain generation that quotes no
\* query and no error; every later request of the call is a repair that
\* carries the question of the call, the query produced by the request just
\* before it and the error caught in that attempt, never anything older.
C26_RepairQuotesThePrecedingAttempt ==
    /\ Len(sql_genLog) = Len(sql_attemptLog)
    /\ \A i \in DOMAIN sql_genLog :
          LET r == sql_genLog[i] IN
          /\ r.question = sql_prompt
          /\ i = 1 => r.kind = "generate" /\ r.prev_query = "" /\ r.error = ""
          /\ i > 1 => /\ r.kind = "repair"
                      /\ r.prev_query \in Queries
                      /\ r.prev_query = sql_attemptLog[i - 1].query
                      /\ r.error # ""
                      /\ r.error = sql_attemptLog[i - 1].error

\* C26 witness: a third request has been issued after two attempts that
\* produced different queries and failed with different errors
C26_Witness ==
    /\ Len(sql_genLog) = 3
    /\ sql_attemptLog[1].query # sql_attemptLog[2].query
    /\ sql_attemptLog[1].error # sql_attemptLog[2].error
    /\ sql_genLog[3].prev_query = sql_attemptLog[2].query

\* C27: schema_json_ is the snapshot taken when the agent was constructed;
\* no step of any query call changes it, and every generation and repair
\* prompt embeds it, also after the database has changed shape.
C27_SnapshotIsBuiltOnce ==
    /\ [](schema_json_ = BuildSchema(sql_source.at_construction))
    /\ [][schema_json_' = schema_json_]_vars
    /\ [](\A i \in DOMAIN sql_attemptLog :
            sql_attemptLog[i].schema =
               BuildSchema(sql_source.at_construction))

\* C27 witness: a call has ended after a generation and a repair issued
\* while the database had a shape other than the one at construction
C27_Witness ==
    /\ sql_pc = "done"
    /\ Len(sql_attemptLog) = 2
    /\ sql_source.now # sql_source.at_construction
    /\ schema_json_ # BuildSchema(sql_source.now)

\* C29: the return that follows the loop is taken exactly by the calls with
\* negative retries, which issue no generation and execute nothing; a call
\* with retries >= 0 ends inside the loop, after at least one generation
\* request.
C29_TrailingReturnOnlyForNegativeRetries ==
    /\ sql_result = AllFailedMessage <=> (sql_pc = "done" /\ sql_retries < 0)
    /\ sql_result = AllFailedMessage =>
          sql_trace = <<>> /\ sql_genLog = <<>> /\ llm_calls = 0
    /\ (sql_pc = "done" /\ sql_retries >= 0) => Len(sql_genLog) >= 1

\* C29 witness: a call with retries = -1 has returned the trailing message
C29_Witness ==
    /\ sql_pc = "done"
    /\ sql_retries = -1
    /\ sql_result = AllFailedMessage

----------------------------------------------------------------------------
(* Further properties of ChromaAgent.query *)

\* C24: whatever the retrieval returns, a list of chunks or no chunk at all,
\* the call answers or refuses: a call whose retrieval has returned ends by
\* raising only if the completion request raised.
C24_AnswerOrRefusalForEveryRetrieval ==
    (rag_pc = "done" /\ ~rag_retrieved.raised) =>
       \/ rag_result.kind = "answer"
       \/ rag_result = Refusal
       \/ rag_result.kind = "raised" /\ rag_llmCalls > 0

----------------------------------------------------------------------------
(* Further properties of MultiAgent.query *)

\* the lookup by the classifier's integer raised in this step
LookupRaises ==
    /\ ma_pc = "classify"
    /\ ma_response'.answered
    /\ ~PyInRange(agents_, ma_response'.agent_integer)

\* C30: the agent is recorded before the question is forwarded, so while and
\* after a backend runs, also when it raises, last_agent_ and
\* last_agent_name_ are the backend this call forwarded to; when the lookup
\* by the classifier's integer raises, no backend is called and both fields
\* keep what the previous routing left in them (or stay unset).
C30_RecordedAgentAndFailedLookup ==
    /\ []((ma_pc \in {"forward", "done"} /\ ma_forwardLog # <<>>) =>
            /\ Len(ma_forwardLog) = 1
            /\ last_agent_ = ma_forwardLog[1].agent
            /\ last_agent_name_ = AgentName(ma_forwardLog[1].agent))
    /\ [][LookupRaises =>
            /\ ma_pc' = "done"
            /\ ma_result'.kind = "raised"
            /\ last_agent_' = last_agent_
            /\ last_agent_name_' = last_agent_name_
            /\ ma_forwardLog' = <<>>
            /\ rag_pc' = "idle" /\ sql_pc' = "idle"]_vars

\* C30 witness: a call has ended in a failed lookup, no backend was called,
\* and the recorded agent is the one an earlier call was routed to
C30_Witness ==
    /\ ma_pc = "done"
    /\ ma_response.answered
    /\ ~PyInRange(agents_, ma_response.agent_integer)
    /\ ma_forwardLog = <<>>
    /\ last_agent_ = "sql"
    /\ last_agent_name_ = "Database_Agent"

----------------------------------------------------------------------------
(* Properties of query_race_agent *)

\* C23: query_race_agent always returns. When the routing or the backend
\* raised, the response is the fixed error message and the trace carries the
\* error text; otherwise the response is the backend's and the trace names
\* the agent the question was forwarded to.
C23_HandlerReturnsMessageOrResponse ==
    qra_pc = "done" =>
       /\ qra_out.kind = "returned"
       /\ ma_result.kind = "raised" =>
             /\ qra_out.response = ErrorMessage
             /\ qra_out.trace = <<"error", ma_result.text>>
       /\ ma_result.kind # "raised" =>
             /\ ma_forwardLog # <<>>
             /\ qra_out.response = ma_result
             /\ qra_out.trace[1] = "agent"
             /\ qra_out.trace[2] = AgentName(ma_forwardLog[1].agent)

\* C23 witness: the classifier's integer was out of range, the lookup
\* raised, and the call has returned the error message with the error text
C23_Witness ==
    /\ qra_pc = "done"
    /\ ma_response.answered
    /\ ~PyInRange(agents_, ma_response.agent_integer)
    /\ qra_out.kind = "returned"
    /\ qra_out.response = ErrorMessage
    /\ qra_out.trace = <<"error", "IndexError: list index out of range">>

----------------------------------------------------------------------------
(* Properties of MultiAgent.__init__ *)

\* C21: in the classification prompt, the framing of each agent is the one
\* of the class the backend was constructed as: qualitative for ChromaAgent,
\* quantitative for SQLiteAgent, spreadsheet-specific for ExcelAgent.
C21_FramingOfTheConstructedClass ==
    \A i \in DOMAIN ma_prompt_ :
       LET c == mi_agents[i].constructed_as
           f == ma_prompt_[i].framing IN
       /\ c = "ChromaAgent" => f = "Qualitative questions related to: "
       /\ c = "SQLiteAgent" =>
             f = "Quantitative questions answerable with SQL related to: "
       /\ c = "ExcelAgent" =>
             f = "Spreadsheet-based questions from race data ... related to: "

----------------------------------------------------------------------------
(* Properties of ExcelAgent._build_schema *)

\* C22: after a workbook of m sheets with pairwise distinct names has been
\* materialized, the temporary database holds exactly m tables, one per
\* sheet, named by the cleaned sheet name and holding that sheet's data; no
\* sheet's data has been overwritten by another sheet's.
C22_OneTablePerSheet ==
    xl_pc = "done" =>
       /\ Cardinality(DOMAIN xl_tables) = Len(xl_sheets)
       /\ \A i \in DOMAIN xl_sheets :
             /\ clean_table_name(xl_sheets[i]) \in DOMAIN xl_tables
             /\ xl_tables[clean_table_name(xl_sheets[i])] = xl_sheets[i]

----------------------------------------------------------------------------
(* Properties of concurrent SQLiteAgent.query calls *)

\* C28: with two threads inside query on one instance, the query a call
\* executes is the one its own latest generation produced, and the previous
\* query a repair quotes is one generated for that same call.
C28_EachCallRunsItsOwnQuery ==
    \A t \in Threads :
       LET own == sq_th[t].generated IN
       /\ sq_th[t].executed # "none"
             => \E i \in DOMAIN own : sq_th[t].executed = own[i]
       /\ (sq_th[t].pc \in {"summarize", "done"}
              /\ sq_th[t].executed # "none")
             => sq_th[t].executed = own[Len(own)]
       /\ sq_th[t].quoted \notin {"none", ""}
             => \E i \in DOMAIN own : sq_th[t].quoted = own[i]

====
